---- MODULE Spec2Model ----
(***************************************************************************)
(* The driver's Competition (crates/driver/src/domain/competition/mod.rs): *)
(* one slot `settlement: Mutex<Option<Settlement>>` per solver, written by  *)
(* solve, consumed by settle and read by auction_id.  Callers are the      *)
(* concurrent request handlers of one solver; every await of solve is a    *)
(* point where other callers run and where the call can be dropped.        *)
(***************************************************************************)
EXTENDS Integers, Sequences, FiniteSets, TLC

\* ------------------------------------------------------------------ bounds
MaxTime == 4          \* the clock runs from 0 to MaxTime
MaxSolutions == 2     \* solutions in one solver answer
MaxScore == 1         \* scores are 0..MaxScore
MaxInputs == 3        \* solutions in one solver answer of the rounds of SpecMerge
MaxTrades == 2        \* trades of a solution given to Solution::new
MaxAmount == 2        \* clearing prices are 1..MaxAmount
MaxAllowances == 2    \* allowances that the interactions of a solution require
MaxU256 == 3          \* U256::max_value() of the amounts of allowances and fulfillments
MaxSwap == 3          \* the amounts of the orders given to the baseline solver are 1..MaxSwap
MaxLiquidity == 1     \* liquidity interactions in the response of a legacy solver
MaxCustom == 2        \* custom interactions in the response of a legacy solver
MaxApprovals == 2     \* approvals in the response of a legacy solver

Procs == {"p1", "p2"}         \* concurrent callers of one Competition
NoProc == "none"
AuctionIds == {1, 2}
Uids == {1, 2}                \* order uids of an auction

\* The solver safety buffer subtracted from the auction deadline
\* (configuration option solver-timeout-buffer).
Buffer == 2

\* ------------------------------------------------------------------ data
Order(uid, kind, sell, buy) ==
    [uid |-> uid, kind |-> kind, sell |-> [token |-> sell], buy |-> [token |-> buy]]

\* Trade::Fulfillment of a protocol order, Trade::Jit of a just-in-time order.
Fulfillment(order) == [tag |-> "Fulfillment", order |-> order]
Jit(order) == [tag |-> "Jit", order |-> order]

\* Solution::user_trades: fulfillments of Market and Limit orders.
user_trades(solution) ==
    SelectSeq(solution.trades,
              LAMBDA trade : /\ trade.tag = "Fulfillment"
                             /\ trade.order.kind \in {"Market", "Limit"})

\* is_empty that looks at all trades of the solution.
is_empty_AnyTrade(solution) == solution.trades = <<>>

\* Solution::is_empty: no user trade.
is_empty(solution) == user_trades(solution) = <<>>

Range(s) == {s[i] : i \in 1..Len(s)}

\* Settlement::encode, when it succeeds: the settlement of one solution for
\* one auction.
Encoded(solution, auction) ==
    [auction_id |-> auction.id,
     orders     |-> {t.order.uid : t \in Range(user_trades(solution))},
     prices     |-> solution.prices]

NoSettlement == [auction_id |-> 0, orders |-> {}, prices |-> <<>>]

\* Settlement::merge can succeed only for settlements that share no order and
\* agree on every common clearing price.
Mergeable(a, b) ==
    /\ a.orders \cap b.orders = {}
    /\ \A t \in DOMAIN a.prices \cap DOMAIN b.prices : a.prices[t] = b.prices[t]

\* Settlement::merge, when it succeeds.
Merge(a, b) ==
    [auction_id |-> a.auction_id,
     orders     |-> a.orders \cup b.orders,
     prices     |-> [t \in DOMAIN a.prices \cup DOMAIN b.prices |->
                        IF t \in DOMAIN a.prices THEN a.prices[t] ELSE b.prices[t]]]

\* Settlement::orders
orders(s) == s.orders

\* Settlement::calldata for one Internalization mode.
calldata(s, internalization) == [settlement |-> s, internalization |-> internalization]

\* Deadline::timeout: what is left of the deadline once the buffer is taken off;
\* nothing left is DeadlineExceeded.
timeout(deadline, t) == deadline - t - Buffer
DeadlineExceeded(deadline, t) == timeout(deadline, t) <= 0

\* The surplus that settling the order brings, in units of the gas of one trade.
SurplusOf(uid) == IF uid = 3 THEN 0 ELSE 2

RECURSIVE SurplusOfAll(_)
SurplusOfAll(uids) ==
    IF uids = {} THEN 0
    ELSE LET uid == CHOOSE u \in uids : TRUE
         IN  SurplusOf(uid) + SurplusOfAll(uids \ {uid})

\* Settlement::score for SolverScore::RiskAdjusted with success probability 1:
\* the surplus of the orders less the cost of the gas, one unit for each trade.
RiskAdjusted(s) == SurplusOfAll(s.orders) - Cardinality(s.orders)

\* ------------------------------------------------------------------ results
Pending == [kind |-> "Pending"]
\* The call was dropped at the await `at`.
Cancelled(at) == [kind |-> "Cancelled", at |-> at]
Err(e) == [kind |-> "Err", err |-> e]
Reveal(score, os) == [kind |-> "Reveal", score |-> score, orders |-> os]
Calldata(s) == [kind |-> "Calldata",
                internalized   |-> calldata(s, "Enable"),
                uninternalized |-> calldata(s, "Disable")]
AuctionIdOf(slot) == [kind |-> "AuctionId",
                      id |-> IF slot = <<>> THEN <<>> ELSE <<slot[1].auction_id>>]

\* ------------------------------------------------------------------ inputs
PriceMaps == {[t \in {"A", "B"} |-> 1]}
\* The trades of a solution: none, a just-in-time order only, the fulfillment of
\* a liquidity order only, or the fulfillment of a user order.
TradeLists ==
    {<<>>, <<Jit(Order(8, "Liquidity", "A", "B"))>>,
     <<Fulfillment(Order(9, "Liquidity", "A", "B"))>>}
        \cup {<<Fulfillment(Order(u, "Market", "A", "B"))>> : u \in Uids}
Shapes == {[trades |-> tr, prices |-> pr] : tr \in TradeLists, pr \in PriceMaps}

\* The answers of the solver: up to MaxSolutions solutions, ids unique in the round.
Answers(shapes) ==
    UNION {{[i \in 1..n |-> [id |-> i, trades |-> f[i].trades, prices |-> f[i].prices]] :
                f \in [1..n -> shapes]} : n \in 0..MaxSolutions}

\* Auction deadlines as received: a sliver of half the buffer, or ample time.
Auctions(t) == {[id |-> i, deadline |-> d] :
                    i \in AuctionIds, d \in {t + (Buffer \div 2), t + Buffer + 1}}
NoAuction == [id |-> 0, deadline |-> 0]

\* The solver answers of a single caller: all of them.
SolverAnswers == Answers(Shapes)

\* The solver answers of concurrent callers: none, an empty solution, one
\* solution, two solutions of different orders, two solutions of one order.
Solved(i, uid) == [id |-> i,
                   trades |-> <<Fulfillment(Order(uid, "Market", "A", "B"))>>,
                   prices |-> [t \in {"A", "B"} |-> 1]]
RacingAnswers ==
    {<<>>,
     <<[id |-> 1, trades |-> <<>>, prices |-> [t \in {"A", "B"} |-> 1]]>>,
     <<Solved(1, 1)>>,
     <<Solved(1, 1), Solved(2, 2)>>,
     <<Solved(1, 2), Solved(2, 2)>>}

\* The solver answers of the rounds that exercise the merge loop: solutions of
\* one user order each, of the same order or of different ones, at the same
\* clearing prices or at another price of token A.
Candidate(uid, a) ==
    [trades |-> <<Fulfillment(Order(uid, "Limit", "A", "B"))>>,
     prices |-> [t \in {"A", "B"} |-> IF t = "A" THEN a ELSE 1]]
MergeShapes == {Candidate(1, 1), Candidate(2, 1), Candidate(3, 1), Candidate(3, 2)}
MergeAnswers ==
    UNION {{[i \in 1..n |-> [id |-> i, trades |-> f[i].trades, prices |-> f[i].prices]] :
                f \in [1..n -> MergeShapes]} : n \in 0..MaxInputs}

ScoreResults == {[ok |-> FALSE, score |-> 0]} \cup {[ok |-> TRUE, score |-> s] : s \in 0..MaxScore}
NoBest == [score |-> 0, settlement |-> NoSettlement]

\* The last operation on the slot. An install records its settlement and its
\* time; a take records for how long the settlement it took had been reserved.
NoOp == [op |-> "none", settlement |-> NoSettlement, at |-> 0, age |-> 0]
Installed(s, t) == [op |-> "install", settlement |-> s, at |-> t, age |-> 0]
Taken(age) == [op |-> "take", settlement |-> NoSettlement, at |-> 0, age |-> age]
Refused == [op |-> "refuse", settlement |-> NoSettlement, at |-> 0, age |-> 0]

\* The record of a merge loop: the shuffled settlements it started from, the
\* merge attempts made, those that succeeded, and whether a merge of two
\* settlements that share no order and agree on their prices failed.
NoMerger == [inputs |-> <<>>, attempts |-> 0, merged |-> 0, failed |-> FALSE]

\* The state of the submission that a call handed to the mempools: none, in
\* flight, or ended in one of the outcomes of the submitter.
Outcomes == {"Mined", "Expired", "Reverted", "Rejected"}
NoSubmission == "None"
InFlight == "InFlight"

\* No function of a solution is evaluated.
NoCall == [fn |-> "none", args |-> <<>>, ret |-> Pending]

\* No subscriber of the events is installed.
NotObserved == [subscribed |-> FALSE, received |-> <<>>]

\* The events handed to observe by solve, with what they are given.
observe_empty_solution(id) == [event |-> "empty_solution", id |-> id]
observe_encoding(id) == [event |-> "encoding", id |-> id]
observe_encoding_failed(id) == [event |-> "encoding_failed", id |-> id]
observe_merged(s, other) == [event |-> "merged", settlement |-> s, other |-> other]
observe_not_merged(s, other) == [event |-> "not_merged", settlement |-> s, other |-> other]
observe_scoring(s) == [event |-> "scoring", settlement |-> s]
observe_scoring_failed(auction_id) == [event |-> "scoring_failed", auction_id |-> auction_id]
observe_score(s, sc) == [event |-> "score", settlement |-> s, score |-> sc]

\* ------------------------------------------------------------------ state
VARIABLES
    settlement,     \* Competition.settlement, the slot: <<>> is None, <<s>> is Some(s)
    lock,           \* the holder of the slot's mutex, or NoProc
    pc,             \* where each caller is
    auction,        \* solve: the auction of the call
    solutions,      \* solve: the non-empty solutions of the solver
    settlements,    \* solve: the working vector of the merge loop
    results,        \* solve: the merged settlements in their final form
    popped,         \* solve: the settlement popped by the merge loop; settle: the one taken
    idx,            \* solve: the position of `other` in the working vector
    best,           \* solve: the best-scoring (score, settlement)
    scores,         \* solve: the (score, settlement) of the settlements that were scored
    merger,         \* solve: the record of the merge loop of the call
    result,         \* what the caller's last call returned
    executed,       \* the settlements the caller's last call handed to Mempools::execute
    solverCalled,   \* whether the caller's last solve call invoked the solver
    lastOp,         \* the last operation on the slot: none yet, an install, a take, or a
                    \* settle refused since the last take
    now,            \* the clock
    submission,     \* the state of the submission that the caller's last call handed to the
                    \* mempools
    call,           \* the call of a function of a solution that is evaluated: the function,
                    \* its arguments and what it returned
    events          \* whether a subscriber of the events of observe is installed, and
                    \* what it received from the last step, in its order

vars == <<settlement, lock, pc, auction, solutions, settlements, results, popped, idx,
          best, scores, merger, result, executed, solverCalled, lastOp, now, submission,
          call, events>>

locals == <<auction, solutions, settlements, results, popped, idx, best, scores, merger>>

\* The step hands the events `emitted` to observe: the subscriber receives
\* them, and without a subscriber they are dropped.
Emit(emitted) ==
    events' = [events EXCEPT !.received = IF events.subscribed THEN emitted ELSE <<>>]

Suspension == {"fetch", "solver", "encode", "merge"}

\* The Competition as constructed: the slot is empty and no caller is in a call.
Constructed ==
    /\ settlement = <<>>
    /\ lock = NoProc
    /\ pc = [p \in Procs |-> "idle"]
    /\ auction = [p \in Procs |-> NoAuction]
    /\ solutions = [p \in Procs |-> <<>>]
    /\ settlements = [p \in Procs |-> <<>>]
    /\ results = [p \in Procs |-> <<>>]
    /\ popped = [p \in Procs |-> NoSettlement]
    /\ idx = [p \in Procs |-> 0]
    /\ best = [p \in Procs |-> NoBest]
    /\ scores = [p \in Procs |-> <<>>]
    /\ merger = [p \in Procs |-> NoMerger]
    /\ result = [p \in Procs |-> Pending]
    /\ executed = [p \in Procs |-> <<>>]
    /\ solverCalled = [p \in Procs |-> FALSE]
    /\ lastOp = NoOp
    /\ now = 0
    /\ submission = [p \in Procs |-> NoSubmission]
    /\ events = NotObserved

Init == Constructed /\ call = NoCall

\* The locals of a call are dropped when it returns or is dropped.
Drop(p) ==
    /\ auction' = [auction EXCEPT ![p] = NoAuction]
    /\ solutions' = [solutions EXCEPT ![p] = <<>>]
    /\ settlements' = [settlements EXCEPT ![p] = <<>>]
    /\ results' = [results EXCEPT ![p] = <<>>]
    /\ popped' = [popped EXCEPT ![p] = NoSettlement]
    /\ idx' = [idx EXCEPT ![p] = 0]
    /\ best' = [best EXCEPT ![p] = NoBest]
    /\ scores' = [scores EXCEPT ![p] = <<>>]
    /\ merger' = [merger EXCEPT ![p] = NoMerger]

Return(p, r) ==
    /\ pc' = [pc EXCEPT ![p] = "idle"]
    /\ result' = [result EXCEPT ![p] = r]
    /\ Drop(p)

\* ------------------------------------------------------------------ solve
\* solve, up to its first await: the liquidity fetch for the auction's orders.
SolveStart(p, a) ==
    /\ pc[p] = "idle"
    /\ pc' = [pc EXCEPT ![p] = "fetch"]
    /\ auction' = [auction EXCEPT ![p] = a]
    /\ result' = [result EXCEPT ![p] = Pending]
    /\ executed' = [executed EXCEPT ![p] = <<>>]
    /\ solverCalled' = [solverCalled EXCEPT ![p] = FALSE]
    /\ submission' = [submission EXCEPT ![p] = NoSubmission]
    /\ UNCHANGED <<settlement, lock, solutions, settlements, results, popped, idx, best,
                   scores, merger, lastOp, now, call>>
    /\ Emit(<<>>)

\* FetchDone with the error of timeout() ignored: the solver is always called.
FetchDone_NoTimeoutCheck(p) ==
    /\ pc[p] = "fetch"
    /\ pc' = [pc EXCEPT ![p] = "solver"]
    /\ solverCalled' = [solverCalled EXCEPT ![p] = TRUE]
    /\ UNCHANGED <<result, locals>>
    /\ UNCHANGED <<settlement, lock, executed, lastOp, now, call, submission>>
    /\ Emit(<<>>)

\* The liquidity is there; auction.deadline.timeout()? either returns
\* DeadlineExceeded or the solver is called with the timeout.
FetchDone(p) ==
    /\ pc[p] = "fetch"
    /\ IF DeadlineExceeded(auction[p].deadline, now)
       THEN /\ Return(p, Err("DeadlineExceeded"))
            /\ UNCHANGED solverCalled
       ELSE /\ pc' = [pc EXCEPT ![p] = "solver"]
            /\ solverCalled' = [solverCalled EXCEPT ![p] = TRUE]
            /\ UNCHANGED <<result, locals>>
    /\ UNCHANGED <<settlement, lock, executed, lastOp, now, call, submission>>
    /\ Emit(<<>>)

\* The solver fails: solve returns Error::Solver.
SolverError(p) ==
    /\ pc[p] = "solver"
    /\ Return(p, Err("Solver"))
    /\ UNCHANGED <<settlement, lock, executed, solverCalled, lastOp, now, call, submission>>
    /\ Emit(<<>>)

\* SolverReturn that announces the encoding of every solution, the empty ones
\* as well.
SolverReturn_EncodesEmpty(p, answer) ==
    /\ pc[p] = "solver"
    /\ pc' = [pc EXCEPT ![p] = "encode"]
    /\ solutions' = [solutions EXCEPT ![p] = answer]
    /\ LET empty == SelectSeq(answer, is_empty)
       IN  Emit([i \in 1..Len(empty) |-> observe_empty_solution(empty[i].id)]
                    \o [i \in 1..Len(answer) |-> observe_encoding(answer[i].id)])
    /\ UNCHANGED <<settlement, lock, auction, settlements, results, popped, idx, best,
                   scores, merger, result, executed, solverCalled, lastOp, now, call, submission>>

\* The solver answers with its solutions: join_all takes them through the
\* filter, which reports the empty ones, and polls the encodings of the others,
\* each of which reports that it starts.
SolverReturn(p, answer) ==
    /\ pc[p] = "solver"
    /\ pc' = [pc EXCEPT ![p] = "encode"]
    /\ solutions' = [solutions EXCEPT ![p] = answer]
    /\ LET empty == SelectSeq(answer, is_empty)
           useful == SelectSeq(answer, LAMBDA s : ~is_empty(s))
       IN  Emit([i \in 1..Len(empty) |-> observe_empty_solution(empty[i].id)]
                    \o [i \in 1..Len(useful) |-> observe_encoding(useful[i].id)])
    /\ UNCHANGED <<settlement, lock, auction, settlements, results, popped, idx, best,
                   scores, merger, result, executed, solverCalled, lastOp, now, call, submission>>

\* settlements.shuffle: every order of the vector.
Shuffles(s) == {[i \in 1..Len(s) |-> s[f[i]]] : f \in Permutations(1..Len(s))}

\* The merge loop from `while let Some(settlement) = settlements.pop()` up to its
\* next merge attempt, or to its end: a popped settlement that has no other to
\* try goes to the results.
RECURSIVE Pop(_, _)
Pop(W, R) ==
    IF W = <<>>
    THEN [done |-> TRUE, settlements |-> <<>>, results |-> R, popped |-> NoSettlement]
    ELSE LET x == W[Len(W)]
             rest == SubSeq(W, 1, Len(W) - 1)
         IN  IF rest = <<>>
             THEN Pop(rest, Append(R, x))
             ELSE [done |-> FALSE, settlements |-> rest, results |-> R, popped |-> x]

\* The merge loop is at its next await, or done and scoring is next.
Loop(p, st) ==
    /\ pc' = [pc EXCEPT ![p] = IF st.done THEN "score" ELSE "merge"]
    /\ settlements' = [settlements EXCEPT ![p] = st.settlements]
    /\ results' = [results EXCEPT ![p] = st.results]
    /\ popped' = [popped EXCEPT ![p] = st.popped]
    /\ idx' = [idx EXCEPT ![p] = IF st.done THEN 0 ELSE 1]

\* The empty solutions are discarded and the others encoded; join_all of the
\* encodings is done: the solutions that failed to encode are filtered out, the
\* settlements are shuffled and the merge loop starts.
EncodeDone(p) ==
    /\ pc[p] = "encode"
    /\ LET useful == SelectSeq(solutions[p], LAMBDA s : ~is_empty(s))
       IN  \E ok \in [{s.id : s \in Range(useful)} -> BOOLEAN] :
             LET kept == SelectSeq(useful, LAMBDA s : ok[s.id])
                 encoded == [i \in 1..Len(kept) |-> Encoded(kept[i], auction[p])]
                 failed == SelectSeq(useful, LAMBDA s : ~ok[s.id])
             IN  /\ \E shuffled \in Shuffles(encoded) :
                      /\ Loop(p, Pop(shuffled, <<>>))
                      /\ merger' = [merger EXCEPT ![p] = [NoMerger EXCEPT !.inputs = shuffled]]
                 /\ Emit([i \in 1..Len(failed) |-> observe_encoding_failed(failed[i].id)])
    /\ solutions' = [solutions EXCEPT ![p] = <<>>]
    /\ UNCHANGED <<settlement, lock, auction, best, scores, result, executed, solverCalled,
                   lastOp, now, call, submission>>

\* MergeAttempt that puts a settlement that merged with no other back into the
\* working vector.
MergeAttempt_Requeue(p) ==
    /\ pc[p] = "merge"
    /\ LET W == settlements[p]
           i == idx[p]
           x == popped[p]
       IN  \E ok \in (IF Mergeable(W[i], x) THEN BOOLEAN ELSE {FALSE}) :
             /\ IF ok
                THEN Loop(p, Pop([W EXCEPT ![i] = Merge(W[i], x)], results[p]))
                ELSE IF i < Len(W)
                     THEN /\ idx' = [idx EXCEPT ![p] = i + 1]
                          /\ UNCHANGED <<pc, settlements, results, popped>>
                     ELSE Loop(p, Pop(<<x>> \o W, results[p]))
             /\ merger' = [merger EXCEPT
                             ![p].attempts = @ + 1,
                             ![p].merged = IF ok THEN @ + 1 ELSE @,
                             ![p].failed = @ \/ (Mergeable(W[i], x) /\ ~ok)]
             /\ Emit(<<IF ok THEN observe_merged(x, Merge(W[i], x))
                        ELSE observe_not_merged(x, W[i])>>)
    /\ UNCHANGED <<settlement, lock, auction, solutions, best, scores, result, executed,
                   solverCalled, lastOp, now, call, submission>>

\* MergeAttempt that gives up after the first `other`.
MergeAttempt_FirstOnly(p) ==
    /\ pc[p] = "merge"
    /\ LET W == settlements[p]
           i == idx[p]
           x == popped[p]
       IN  \E ok \in (IF Mergeable(W[i], x) THEN BOOLEAN ELSE {FALSE}) :
             /\ IF ok
                THEN Loop(p, Pop([W EXCEPT ![i] = Merge(W[i], x)], results[p]))
                ELSE Loop(p, Pop(W, Append(results[p], x)))
             /\ merger' = [merger EXCEPT
                             ![p].attempts = @ + 1,
                             ![p].merged = IF ok THEN @ + 1 ELSE @,
                             ![p].failed = @ \/ (Mergeable(W[i], x) /\ ~ok)]
             /\ Emit(<<IF ok THEN observe_merged(x, Merge(W[i], x))
                        ELSE observe_not_merged(x, W[i])>>)
    /\ UNCHANGED <<settlement, lock, auction, solutions, best, scores, result, executed,
                   solverCalled, lastOp, now, call, submission>>

\* MergeAttempt without `if !merged`: a merged settlement also goes to the
\* results.
MergeAttempt_PushMerged(p) ==
    /\ pc[p] = "merge"
    /\ LET W == settlements[p]
           i == idx[p]
           x == popped[p]
       IN  \E ok \in (IF Mergeable(W[i], x) THEN BOOLEAN ELSE {FALSE}) :
             /\ IF ok
                THEN Loop(p, Pop([W EXCEPT ![i] = Merge(W[i], x)], Append(results[p], x)))
                ELSE IF i < Len(W)
                     THEN /\ idx' = [idx EXCEPT ![p] = i + 1]
                          /\ UNCHANGED <<pc, settlements, results, popped>>
                     ELSE Loop(p, Pop(W, Append(results[p], x)))
             /\ merger' = [merger EXCEPT
                             ![p].attempts = @ + 1,
                             ![p].merged = IF ok THEN @ + 1 ELSE @,
                             ![p].failed = @ \/ (Mergeable(W[i], x) /\ ~ok)]
             /\ Emit(<<IF ok THEN observe_merged(x, Merge(W[i], x))
                        ELSE observe_not_merged(x, W[i])>>)
    /\ UNCHANGED <<settlement, lock, auction, solutions, best, scores, result, executed,
                   solverCalled, lastOp, now, call, submission>>

\* One other.merge(&settlement) is done. Ok: `other` becomes the merged
\* settlement and the next settlement is popped. Err: the next `other` is tried;
\* after the last one the settlement goes to the results.
MergeAttempt(p) ==
    /\ pc[p] = "merge"
    /\ LET W == settlements[p]
           i == idx[p]
           x == popped[p]
       IN  \E ok \in (IF Mergeable(W[i], x) THEN BOOLEAN ELSE {FALSE}) :
             /\ IF ok
                THEN Loop(p, Pop([W EXCEPT ![i] = Merge(W[i], x)], results[p]))
                ELSE IF i < Len(W)
                     THEN /\ idx' = [idx EXCEPT ![p] = i + 1]
                          /\ UNCHANGED <<pc, settlements, results, popped>>
                     ELSE Loop(p, Pop(W, Append(results[p], x)))
             /\ merger' = [merger EXCEPT
                             ![p].attempts = @ + 1,
                             ![p].merged = IF ok THEN @ + 1 ELSE @,
                             ![p].failed = @ \/ (Mergeable(W[i], x) /\ ~ok)]
             /\ Emit(<<IF ok THEN observe_merged(x, Merge(W[i], x))
                        ELSE observe_not_merged(x, W[i])>>)
    /\ UNCHANGED <<settlement, lock, auction, solutions, best, scores, result, executed,
                   solverCalled, lastOp, now, call, submission>>

\* Score with `?` on the result of a scoring: one failure fails the round.
Score_Fatal(p) ==
    /\ pc[p] = "score"
    /\ \E sc \in [1..Len(results[p]) -> ScoreResults] :
         LET all == [i \in 1..Len(results[p]) |->
                        [ok |-> sc[i].ok, score |-> sc[i].score, settlement |-> results[p][i]]]
         IN  /\ Emit([i \in 1..Len(all) |-> observe_scoring(all[i].settlement)])
             /\ IF \E i \in 1..Len(all) : ~all[i].ok
                THEN Return(p, Err("Scoring"))
                ELSE /\ scores' = [scores EXCEPT ![p] =
                                   [i \in 1..Len(all) |->
                                       [score |-> all[i].score, settlement |-> all[i].settlement]]]
                     /\ pc' = [pc EXCEPT ![p] = "pick"]
                     /\ merger' = [merger EXCEPT ![p] = NoMerger]
                     /\ UNCHANGED <<auction, solutions, settlements, results, popped, idx, best,
                                    result>>
    /\ UNCHANGED <<settlement, lock, executed, solverCalled, lastOp, now, call, submission>>

\* The settlements are scored and those that failed scoring are filtered out.
Score(p) ==
    /\ pc[p] = "score"
    /\ \E sc \in [1..Len(results[p]) -> ScoreResults] :
         LET all == [i \in 1..Len(results[p]) |->
                        [ok |-> sc[i].ok, score |-> sc[i].score, settlement |-> results[p][i]]]
             good == SelectSeq(all, LAMBDA e : e.ok)
             bad == SelectSeq(all, LAMBDA e : ~e.ok)
         IN  /\ scores' = [scores EXCEPT ![p] =
                              [i \in 1..Len(good) |->
                                  [score |-> good[i].score, settlement |-> good[i].settlement]]]
             /\ Emit([i \in 1..Len(all) |-> observe_scoring(all[i].settlement)]
                     \o [i \in 1..Len(bad) |->
                            observe_scoring_failed(bad[i].settlement.auction_id)]
                     \o [i \in 1..Len(good) |->
                            observe_score(good[i].settlement, good[i].score)])
    /\ pc' = [pc EXCEPT ![p] = "pick"]
    /\ merger' = [merger EXCEPT ![p] = NoMerger]
    /\ UNCHANGED <<auction, solutions, settlements, results, popped, idx, best, result>>
    /\ UNCHANGED <<settlement, lock, executed, solverCalled, lastOp, now, call, submission>>

\* max_by_key that keeps the first of the elements with the greatest score.
max_by_key_First(scored) ==
    LET i == CHOOSE k \in 1..Len(scored) :
                 /\ \A j \in 1..Len(scored) : scored[j].score <= scored[k].score
                 /\ \A j \in 1..(k - 1) : scored[j].score < scored[k].score
    IN  scored[i]

\* max_by_key that takes the best score and the first settlement.
max_by_key_MixedUp(scored) ==
    LET i == CHOOSE k \in 1..Len(scored) :
                 \A j \in 1..Len(scored) : scored[j].score <= scored[k].score
    IN  [score |-> scored[i].score, settlement |-> scored[1].settlement]

\* max_by_key on the score: the last of the elements with the greatest score.
max_by_key(scored) ==
    LET i == CHOOSE k \in 1..Len(scored) :
                 /\ \A j \in 1..Len(scored) : scored[j].score <= scored[k].score
                 /\ \A j \in (k + 1)..Len(scored) : scored[j].score < scored[k].score
    IN  scored[i]

\* Pick that stores the pick in the slot before `ok_or`: with nothing to pick
\* the slot is emptied.
Pick_StoresNone(p) ==
    /\ pc[p] = "pick"
    /\ IF scores[p] = <<>>
       THEN /\ Return(p, Err("SolutionNotFound"))
            /\ settlement' = <<>>
       ELSE /\ pc' = [pc EXCEPT ![p] = "lock"]
            /\ best' = [best EXCEPT ![p] = max_by_key(scores[p])]
            /\ results' = [results EXCEPT ![p] = <<>>]
            /\ scores' = [scores EXCEPT ![p] = <<>>]
            /\ UNCHANGED <<auction, solutions, settlements, popped, idx, merger, result>>
            /\ UNCHANGED settlement
    /\ UNCHANGED <<lock, executed, solverCalled, lastOp, now, call, submission>>
    /\ Emit(<<>>)

\* The best-scoring settlement is picked; none to pick is SolutionNotFound.
Pick(p) ==
    /\ pc[p] = "pick"
    /\ IF scores[p] = <<>>
       THEN Return(p, Err("SolutionNotFound"))
       ELSE /\ pc' = [pc EXCEPT ![p] = "lock"]
            /\ best' = [best EXCEPT ![p] = max_by_key(scores[p])]
            /\ results' = [results EXCEPT ![p] = <<>>]
            /\ scores' = [scores EXCEPT ![p] = <<>>]
            /\ UNCHANGED <<auction, solutions, settlements, popped, idx, merger, result>>
    /\ UNCHANGED <<settlement, lock, executed, solverCalled, lastOp, now, call, submission>>
    /\ Emit(<<>>)

\* self.settlement.lock() of solve.
SolveLock(p) ==
    /\ pc[p] = "lock"
    /\ lock = NoProc
    /\ lock' = p
    /\ pc' = [pc EXCEPT ![p] = "install"]
    /\ UNCHANGED <<settlement, locals, result, executed, solverCalled, lastOp, now, call, submission>>
    /\ Emit(<<>>)

\* SolveInstall with get_or_insert: a reserved settlement is kept.
SolveInstall_KeepFirst(p) ==
    /\ pc[p] = "install"
    /\ lock = p
    /\ settlement' = IF settlement = <<>> THEN <<best[p].settlement>> ELSE settlement
    /\ lock' = NoProc
    /\ lastOp' = Installed(best[p].settlement, now)
    /\ Return(p, Reveal(best[p].score, orders(best[p].settlement)))
    /\ UNCHANGED <<executed, solverCalled, now, call, submission>>
    /\ Emit(<<>>)

\* SolveInstall on a slot that is a vector: the settlement is pushed.
SolveInstall_Push(p) ==
    /\ pc[p] = "install"
    /\ lock = p
    /\ settlement' = <<best[p].settlement>> \o settlement
    /\ lock' = NoProc
    /\ lastOp' = Installed(best[p].settlement, now)
    /\ Return(p, Reveal(best[p].score, orders(best[p].settlement)))
    /\ UNCHANGED <<executed, solverCalled, now, call, submission>>
    /\ Emit(<<>>)

\* *guard = Some(settlement): the slot is overwritten, the guard is dropped and
\* solve returns the Reveal.
SolveInstall(p) ==
    /\ pc[p] = "install"
    /\ lock = p
    /\ settlement' = <<best[p].settlement>>
    /\ lock' = NoProc
    /\ lastOp' = Installed(best[p].settlement, now)
    /\ Return(p, Reveal(best[p].score, orders(best[p].settlement)))
    /\ UNCHANGED <<executed, solverCalled, now, call, submission>>
    /\ Emit(<<>>)

\* Cancel of a call whose work runs on as a detached task.
Cancel_Detached(p) ==
    /\ pc[p] \in Suspension
    /\ result[p] = Pending
    /\ result' = [result EXCEPT ![p] = Cancelled(pc[p])]
    /\ UNCHANGED <<settlement, lock, pc, locals, executed, solverCalled, lastOp, now, call, submission>>
    /\ Emit(<<>>)

\* The future of solve is dropped at one of its awaits.
Cancel(p) ==
    /\ pc[p] \in Suspension
    /\ Return(p, Cancelled(pc[p]))
    /\ UNCHANGED <<settlement, lock, executed, solverCalled, lastOp, now, call, submission>>
    /\ Emit(<<>>)

\* ------------------------------------------------------------------ settle
\* self.settlement.lock() of settle.
SettleLock(p) ==
    /\ pc[p] = "idle"
    /\ lock = NoProc
    /\ lock' = p
    /\ pc' = [pc EXCEPT ![p] = "take"]
    /\ result' = [result EXCEPT ![p] = Pending]
    /\ executed' = [executed EXCEPT ![p] = <<>>]
    /\ solverCalled' = [solverCalled EXCEPT ![p] = FALSE]
    /\ submission' = [submission EXCEPT ![p] = NoSubmission]
    /\ UNCHANGED <<settlement, locals, lastOp, now, call>>
    /\ Emit(<<>>)

\* SettleTake with as_ref().cloned() for take(): the slot is read, not emptied.
SettleTake_Peek(p) ==
    /\ pc[p] = "take"
    /\ lock = p
    /\ lock' = NoProc
    /\ settlement' = settlement
    /\ IF settlement = <<>>
       THEN /\ Return(p, Err("SolutionNotAvailable"))
            /\ lastOp' = IF lastOp.op \in {"take", "refuse"} THEN Refused ELSE lastOp
       ELSE /\ pc' = [pc EXCEPT ![p] = "execute"]
            /\ popped' = [popped EXCEPT ![p] = settlement[1]]
            /\ lastOp' = Taken(now - lastOp.at)
            /\ UNCHANGED <<auction, solutions, settlements, results, idx, best, scores, merger,
                         result>>
    /\ UNCHANGED <<executed, solverCalled, now, call, submission>>
    /\ Emit(<<>>)

\* SettleTake with unwrap_or_default() for ok_or()?: an empty slot goes on.
SettleTake_Default(p) ==
    /\ pc[p] = "take"
    /\ lock = p
    /\ lock' = NoProc
    /\ settlement' = <<>>
    /\ pc' = [pc EXCEPT ![p] = "execute"]
    /\ popped' = [popped EXCEPT ![p] = IF settlement = <<>> THEN NoSettlement ELSE settlement[1]]
    /\ lastOp' = Taken(now - lastOp.at)
    /\ UNCHANGED <<auction, solutions, settlements, results, idx, best, scores, merger,
                         result>>
    /\ UNCHANGED <<executed, solverCalled, now, call, submission>>
    /\ Emit(<<>>)

\* SettleTake with the guard bound to a local: it lives on to the end of settle.
SettleTake_KeepsGuard(p) ==
    /\ pc[p] = "take"
    /\ lock = p
    /\ lock' = lock
    /\ settlement' = <<>>
    /\ IF settlement = <<>>
       THEN /\ Return(p, Err("SolutionNotAvailable"))
            /\ lastOp' = IF lastOp.op \in {"take", "refuse"} THEN Refused ELSE lastOp
       ELSE /\ pc' = [pc EXCEPT ![p] = "execute"]
            /\ popped' = [popped EXCEPT ![p] = settlement[1]]
            /\ lastOp' = Taken(now - lastOp.at)
            /\ UNCHANGED <<auction, solutions, settlements, results, idx, best, scores, merger,
                         result>>
    /\ UNCHANGED <<executed, solverCalled, now, call, submission>>
    /\ Emit(<<>>)

\* SettleTake that lets a reserved settlement expire one tick after its install.
SettleTake_Expiring(p) ==
    /\ pc[p] = "take"
    /\ lock = p
    /\ lock' = NoProc
    /\ settlement' = <<>>
    /\ IF settlement = <<>> \/ now - lastOp.at > 1
       THEN /\ Return(p, Err("SolutionNotAvailable"))
            /\ lastOp' = Refused
       ELSE /\ pc' = [pc EXCEPT ![p] = "execute"]
            /\ popped' = [popped EXCEPT ![p] = settlement[1]]
            /\ lastOp' = Taken(now - lastOp.at)
            /\ UNCHANGED <<auction, solutions, settlements, results, idx, best, scores, merger,
                         result>>
    /\ UNCHANGED <<executed, solverCalled, now, call, submission>>
    /\ Emit(<<>>)

\* guard.take().ok_or(SolutionNotAvailable)?: the slot is emptied and the guard
\* is dropped; an empty slot returns the error.
SettleTake(p) ==
    /\ pc[p] = "take"
    /\ lock = p
    /\ lock' = NoProc
    /\ settlement' = <<>>
    /\ IF settlement = <<>>
       THEN /\ Return(p, Err("SolutionNotAvailable"))
            /\ lastOp' = IF lastOp.op \in {"take", "refuse"} THEN Refused ELSE lastOp
       ELSE /\ pc' = [pc EXCEPT ![p] = "execute"]
            /\ popped' = [popped EXCEPT ![p] = settlement[1]]
            /\ lastOp' = Taken(now - lastOp.at)
            /\ UNCHANGED <<auction, solutions, settlements, results, idx, best, scores, merger,
                         result>>
    /\ UNCHANGED <<executed, solverCalled, now, call, submission>>
    /\ Emit(<<>>)

\* SettleExecute that hands the settlement to the mempools twice.
SettleExecute_Twice(p) ==
    /\ pc[p] = "execute"
    /\ executed' = [executed EXCEPT ![p] = Append(Append(executed[p], popped[p]), popped[p])]
    /\ submission' = [submission EXCEPT ![p] = InFlight]
    /\ Return(p, Calldata(popped[p]))
    /\ UNCHANGED <<settlement, lock, solverCalled, lastOp, now, call>>
    /\ Emit(<<>>)

\* SettleExecute that waits for the outcome of the submission and puts the
\* settlement back when it was not mined.
SettleExecute_PutBack(p) ==
    /\ pc[p] = "execute"
    /\ executed' = [executed EXCEPT ![p] = Append(executed[p], popped[p])]
    /\ \E outcome \in Outcomes :
         /\ submission' = [submission EXCEPT ![p] = outcome]
         /\ settlement' = IF outcome = "Mined" THEN settlement ELSE <<popped[p]>>
    /\ Return(p, Calldata(popped[p]))
    /\ UNCHANGED <<lock, solverCalled, lastOp, now, call>>
    /\ Emit(<<>>)

\* self.mempools.execute(&self.solver, &settlement), then the calldata of the
\* settlement is returned.
SettleExecute(p) ==
    /\ pc[p] = "execute"
    /\ executed' = [executed EXCEPT ![p] = Append(executed[p], popped[p])]
    /\ submission' = [submission EXCEPT ![p] = InFlight]
    /\ Return(p, Calldata(popped[p]))
    /\ UNCHANGED <<settlement, lock, solverCalled, lastOp, now, call>>
    /\ Emit(<<>>)

\* ------------------------------------------------------------------ auction_id
\* self.settlement.lock() of auction_id.
AuctionIdLock(p) ==
    /\ pc[p] = "idle"
    /\ lock = NoProc
    /\ lock' = p
    /\ pc' = [pc EXCEPT ![p] = "read"]
    /\ result' = [result EXCEPT ![p] = Pending]
    /\ executed' = [executed EXCEPT ![p] = <<>>]
    /\ solverCalled' = [solverCalled EXCEPT ![p] = FALSE]
    /\ submission' = [submission EXCEPT ![p] = NoSubmission]
    /\ UNCHANGED <<settlement, locals, lastOp, now, call>>
    /\ Emit(<<>>)

\* AuctionIdRead with take() for as_ref(): the read empties the slot.
AuctionIdRead_Take(p) ==
    /\ pc[p] = "read"
    /\ lock = p
    /\ lock' = NoProc
    /\ settlement' = <<>>
    /\ Return(p, AuctionIdOf(settlement))
    /\ UNCHANGED <<executed, solverCalled, lastOp, now, call, submission>>
    /\ Emit(<<>>)

\* guard.as_ref().map(|s| s.auction_id): the slot is read and the guard dropped.
AuctionIdRead(p) ==
    /\ pc[p] = "read"
    /\ lock = p
    /\ lock' = NoProc
    /\ Return(p, AuctionIdOf(settlement))
    /\ UNCHANGED <<settlement, executed, solverCalled, lastOp, now, call, submission>>
    /\ Emit(<<>>)

\* ------------------------------------------------------------------ time
Tick ==
    /\ now < MaxTime
    /\ now' = now + 1
    /\ UNCHANGED <<settlement, lock, pc, locals, result, executed, solverCalled, lastOp,
                   submission, call>>
    /\ Emit(<<>>)

\* ------------------------------------------------------------------ mempools
\* The submission of the settlement handed to the mempools ends, in one of the
\* outcomes of the submitter. The mempools have the solver and the settlement,
\* not the Competition.
Mempool(p, outcome) ==
    /\ submission[p] = InFlight
    /\ submission' = [submission EXCEPT ![p] = outcome]
    /\ UNCHANGED <<settlement, lock, pc, locals, result, executed, solverCalled, lastOp, now, call>>
    /\ Emit(<<>>)

\* One call of solve, with the solver answering from `answers`.
Round(p, answers) ==
    \/ \E a \in Auctions(now) : SolveStart(p, a)
    \/ FetchDone(p)
    \/ SolverError(p)
    \/ \E answer \in answers : SolverReturn(p, answer)
    \/ EncodeDone(p)
    \/ MergeAttempt(p)
    \/ Score(p)
    \/ Pick(p)
    \/ SolveLock(p)
    \/ SolveInstall(p)
    \/ Cancel(p)

\* What one caller can do, with the solver answering from `answers`.
Step(p, answers) ==
    \/ Round(p, answers)
    \/ SettleLock(p)
    \/ SettleTake(p)
    \/ SettleExecute(p)
    \/ AuctionIdLock(p)
    \/ AuctionIdRead(p)

\* The callers of one Competition, interleaved at the awaits and at the mutex.
Next == \E p \in Procs : Step(p, RacingAnswers)

Spec == Init /\ [][Next]_vars

\* One caller while the clock runs.
NextTimed == Step("p1", SolverAnswers) \/ Tick

SpecTimed == Init /\ [][NextTimed]_vars

\* The callers of one Competition and the mempools.
NextSubmit ==
    \E p \in Procs :
        \/ Step(p, RacingAnswers)
        \/ \E outcome \in Outcomes : Mempool(p, outcome)

SpecSubmit == Init /\ [][NextSubmit]_vars

\* The first round of a Competition with one caller, the solver answering with
\* the solutions that exercise the merge loop.
NextMerge == lastOp = NoOp /\ Round("p1", MergeAnswers)

SpecMerge == Init /\ [][NextMerge]_vars

\* A subscriber of the events is installed, before the first call.
Subscribe ==
    /\ events = NotObserved
    /\ lastOp = NoOp
    /\ \A p \in Procs : pc[p] = "idle" /\ result[p] = Pending
    /\ events' = [subscribed |-> TRUE, received |-> <<>>]
    /\ UNCHANGED <<settlement, lock, pc, locals, result, executed, solverCalled, lastOp, now,
                   submission, call>>

\* The rounds of one caller, observed.
NextObserve ==
    \/ Subscribe
    \/ events.subscribed /\ Round("p1", SolverAnswers)

SpecObserve == Init /\ [][NextObserve]_vars

\* ------------------------------------------------------------------ solution
\* The variables of the Competition, which the functions of a solution leave alone.
competition == <<settlement, lock, pc, locals, result, executed, solverCalled, lastOp, now,
                 submission, events>>

\* eth::ETH_TOKEN, the sentinel address of the native token, and the address of
\* the wrapped native token that the driver is configured with.
ETH_TOKEN == "ETH"
WETH == "WETH"
Tokens == {ETH_TOKEN, WETH, "A"}

\* TokenAddress::wrap: the native token becomes the wrapped token.
wrap(token, weth) == IF token = ETH_TOKEN THEN weth ELSE token

\* Order::buys_eth
buys_eth(order) == order.buy.token = ETH_TOKEN

Ok(v) == [kind |-> "Ok", value |-> v]
Panic == [kind |-> "Panic"]

\* clearing_price that looks the token up as it is.
clearing_price_NoWrap(solution, token) ==
    IF token \in DOMAIN solution.prices THEN <<solution.prices[token]>> ELSE <<>>

\* Solution::clearing_price: the price of the wrapped token, <<>> when the
\* solver gave none.
clearing_price(solution, token) ==
    LET wrapped == wrap(token, solution.weth)
    IN  IF wrapped \in DOMAIN solution.prices THEN <<solution.prices[wrapped]>> ELSE <<>>

\* Solution::new without the check of the clearing prices.
new_Unchecked(solution) == Ok(solution)

\* Solution::new that checks the price of the sell token only.
new_SellOnly(solution) ==
    IF \A trade \in Range(user_trades(solution)) :
          clearing_price(solution, trade.order.sell.token) # <<>>
    THEN Ok(solution)
    ELSE Err("InvalidClearingPrices")

\* Solution::new: the solution of the arguments, when every user trade has a
\* clearing price for its sell token and for its buy token.
new(solution) ==
    IF \A trade \in Range(user_trades(solution)) :
          /\ clearing_price(solution, trade.order.sell.token) # <<>>
          /\ clearing_price(solution, trade.order.buy.token) # <<>>
    THEN Ok(solution)
    ELSE Err("InvalidClearingPrices")

Asset(token, amount) == [token |-> token, amount |-> amount]

\* self.prices.iter(): the entries of the map in one of the orders in which a
\* HashMap hands them out.
Listings(prices) ==
    LET n == Cardinality(DOMAIN prices)
    IN  {[i \in 1..n |-> Asset(f[i], prices[f[i]])] :
            f \in {g \in [1..n -> DOMAIN prices] : \A i, j \in 1..n : g[i] = g[j] => i = j}}

\* clearing_prices that removes the price of the wrapped token whenever an
\* order buys the native token.
clearing_prices_AlwaysDrop(solution, listing) ==
    IF \E trade \in Range(user_trades(solution)) : buys_eth(trade.order)
    THEN IF solution.weth \in DOMAIN solution.prices
         THEN Ok(Append(SelectSeq(listing, LAMBDA price : price.token # solution.weth),
                        Asset(ETH_TOKEN, solution.prices[solution.weth])))
         ELSE Panic
    ELSE Ok(listing)

\* clearing_prices that adds no price of the native token.
clearing_prices_NoEth(solution, listing) ==
    IF \E trade \in Range(user_trades(solution)) : buys_eth(trade.order)
    THEN IF \A trade \in Range(user_trades(solution)) :
               /\ trade.order.sell.token # solution.weth
               /\ trade.order.buy.token # solution.weth
         THEN Ok(SelectSeq(listing, LAMBDA price : price.token # solution.weth))
         ELSE Ok(listing)
    ELSE Ok(listing)

\* Solution::clearing_prices, the map iterated in the order `listing`. Indexing
\* the map with the wrapped token panics when the map has no such key.
clearing_prices(solution, listing) ==
    IF \E trade \in Range(user_trades(solution)) : buys_eth(trade.order)
    THEN LET prices ==
                 IF \A trade \in Range(user_trades(solution)) :
                       /\ trade.order.sell.token # solution.weth
                       /\ trade.order.buy.token # solution.weth
                 THEN SelectSeq(listing, LAMBDA price : price.token # solution.weth)
                 ELSE listing
         IN  IF solution.weth \in DOMAIN solution.prices
             THEN Ok(Append(prices, Asset(ETH_TOKEN, solution.prices[solution.weth])))
             ELSE Panic
    ELSE Ok(listing)

\* The orders of the trades given to Solution::new. An order sells an ERC20
\* token, the wrapped token among them, and buys an ERC20 token or the native
\* token.
PricedTrades ==
    {Fulfillment(Order(0, "Market", pair[1], pair[2])) :
        pair \in {<<"A", ETH_TOKEN>>, <<"A", WETH>>, <<WETH, "A">>, <<WETH, ETH_TOKEN>>}}
    \cup {Fulfillment(Order(0, "Limit", "A", ETH_TOKEN)),
          Fulfillment(Order(0, "Liquidity", "A", ETH_TOKEN)),
          Fulfillment(Order(0, "Liquidity", WETH, "A")),
          Jit(Order(0, "Liquidity", "A", ETH_TOKEN)),
          Jit(Order(0, "Liquidity", WETH, "A"))}

\* The clearing prices of a solver: of any tokens, the native token among them.
SolverPrices ==
    UNION {[priced -> 1..MaxAmount] : priced \in SUBSET Tokens}

\* The arguments of Solution::new: the trades, each of an order of its own, and
\* the prices of the solver.
NewArgs(trades, prices) ==
    [id |-> 1,
     trades |-> [i \in 1..Len(trades) |-> [trades[i] EXCEPT !.order.uid = i]],
     prices |-> prices,
     interactions |-> <<>>,
     score |-> 0,
     weth |-> WETH]

\* Solution::new is called with the solution of a solver, of up to MaxTrades
\* trades.
InitPrices ==
    /\ Constructed
    /\ \E n \in 0..MaxTrades :
         \E trades \in [1..n -> PricedTrades] :
           \E prices \in SolverPrices :
             call = [fn |-> "new", args |-> NewArgs(trades, prices), ret |-> Pending]

\* Solution::new returns.
New ==
    /\ call.fn = "new"
    /\ call.ret = Pending
    /\ call' = [call EXCEPT !.ret = new(call.args)]
    /\ UNCHANGED competition

\* Solution::clearing_prices of a solution that Solution::new returned.
ClearingPrices ==
    /\ call.fn = "new"
    /\ call.ret.kind = "Ok"
    /\ \E listing \in Listings(call.ret.value.prices) :
         call' = [fn |-> "clearing_prices",
                  args |-> call.ret.value,
                  ret |-> clearing_prices(call.ret.value, listing)]
    /\ UNCHANGED competition

NextPrices == New \/ ClearingPrices

SpecPrices == InitPrices /\ [][NextPrices]_vars

\* ------------------------------------------------------------------ allowances
\* eth::Allowance: the spender may spend the amount of the token. Addresses are
\* numbers, compared as the bytes of an address are.
Allowance(token, spender, amount) == [token |-> token, spender |-> spender, amount |-> amount]
Addresses == {1, 2}
Key(allowance) == <<allowance.token, allowance.spender>>

\* U256::saturating_add that wraps around.
saturating_add_Wrapping(a, b) == (a + b) % (MaxU256 + 1)

\* U256::saturating_add
saturating_add(a, b) == IF a + b > MaxU256 THEN MaxU256 ELSE a + b

\* self.interactions.iter().flat_map(Interaction::allowances): the allowances
\* of the interactions, in the order of the interactions.
RECURSIVE flat_map(_)
flat_map(interactions) ==
    IF interactions = <<>> THEN <<>>
    ELSE Head(interactions).allowances \o flat_map(Tail(interactions))

\* The loop over the allowances: `normalized` has one entry for each
\* (token, spender), the sum of its amounts.
RECURSIVE Normalized(_, _)
Normalized(normalized, allowances) ==
    IF allowances = <<>> THEN normalized
    ELSE LET allowance == Head(allowances)
             key == Key(allowance)
             amount == IF key \in DOMAIN normalized THEN normalized[key] ELSE 0
         IN  Normalized([k \in DOMAIN normalized \cup {key} |->
                            IF k = key THEN saturating_add(amount, allowance.amount)
                            ELSE normalized[k]],
                        Tail(allowances))

\* normalized.into_iter(): the keys of the map in the orders in which a HashMap
\* can hand its entries out.
Iterations(normalized) ==
    LET n == Cardinality(DOMAIN normalized)
    IN  {g \in [1..n -> DOMAIN normalized] : \A i, j \in 1..n : g[i] = g[j] => i = j}

\* The order of allowances: by token, then by spender, then by amount.
Less(a, b) ==
    \/ a.token < b.token
    \/ a.token = b.token /\ a.spender < b.spender
    \/ a.token = b.token /\ a.spender = b.spender /\ a.amount < b.amount

\* Solution::allowances, the map iterated in the order `iteration` of its keys:
\* the entries as allowances, sorted.
allowances(solution, iteration) ==
    LET normalized == Normalized(<<>>, flat_map(solution.interactions))
    IN  SortSeq([i \in 1..Len(iteration) |->
                    Allowance(iteration[i][1], iteration[i][2], normalized[iteration[i]])],
                Less)

\* Required::approval for allowances that compares the amounts the other way.
approval_Reversed(required, existing) ==
    IF \/ <<required.spender, required.token>> # <<existing.spender, existing.token>>
       \/ existing.amount <= required.amount
    THEN <<>>
    ELSE <<required>>

\* Required::approval that approves an amount that is already allowed.
approval_OnEqual(required, existing) ==
    IF \/ <<required.spender, required.token>> # <<existing.spender, existing.token>>
       \/ required.amount < existing.amount
    THEN <<>>
    ELSE <<required>>

\* Required::approval: <<>> is None. The Spender of an allowance is its address
\* and its token.
approval(required, existing) ==
    IF \/ <<required.spender, required.token>> # <<existing.spender, existing.token>>
       \/ required.amount <= existing.amount
    THEN <<>>
    ELSE <<required>>

\* Approval::max
max(approved) == [approved EXCEPT !.amount = MaxU256]

\* eth.erc20(token).allowance(settlement, spender): what the chain allows the
\* spender to spend of the settlement contract's tokens.
allowance(chain, token, spender) == Allowance(token, spender, chain[<<token, spender>>])

\* Solution::approvals when every read of the chain succeeds: the approvals of
\* the required allowances that the chain does not cover, each of the maximum.
RECURSIVE filter_map(_, _)
filter_map(required, chain) ==
    IF required = <<>> THEN <<>>
    ELSE LET existing == allowance(chain, Head(required).token, Head(required).spender)
             approved == approval(Head(required), existing)
         IN  (IF approved = <<>> THEN <<>> ELSE <<max(approved[1])>>)
                 \o filter_map(Tail(required), chain)

approvals(solution, iteration, chain) == filter_map(allowances(solution, iteration), chain)

\* The allowances that interactions require: of two tokens and two spenders, of
\* nothing, of one unit, or of all but one unit of the maximum.
RequiredAllowances ==
    {Allowance(key[1], key[2], amount) :
        key \in {<<1, 1>>, <<1, 2>>, <<2, 1>>}, amount \in {0, 1, MaxU256 - 1}}

\* The solution whose allowances are taken: two interactions that require the
\* allowances between them, the first one the first k of them.
Interacting(required, k) ==
    [interactions |-> <<[allowances |-> SubSeq(required, 1, k)],
                        [allowances |-> SubSeq(required, k + 1, Len(required))]>>]

\* The allowances of the chain: nothing, one unit, or the maximum.
Chains == [Addresses \X Addresses -> {0, 1, MaxU256}]

\* The allowances that Required::approval is given as existing.
ExistingAllowances ==
    {Allowance(token, spender, amount) :
        token \in Addresses, spender \in Addresses, amount \in {0, 1, MaxU256}}

\* Solution::allowances is called on a solution of a solver, whose interactions
\* require up to MaxAllowances allowances.
InitAllowances ==
    /\ Constructed
    /\ \E n \in 0..MaxAllowances :
         \E required \in [1..n -> RequiredAllowances] :
           \E k \in 0..n :
             call = [fn |-> "allowances", args |-> Interacting(required, k), ret |-> Pending]

\* Solution::allowances returns.
Allowances ==
    /\ call.fn = "allowances"
    /\ call.ret = Pending
    /\ \E iteration \in Iterations(Normalized(<<>>, flat_map(call.args.interactions))) :
         call' = [call EXCEPT !.ret = Ok(allowances(call.args, iteration))]
    /\ UNCHANGED competition

\* Required::approval of one of the allowances against an existing one.
Approval(existing) ==
    /\ call.fn = "allowances"
    /\ call.ret # Pending
    /\ \E i \in 1..Len(call.ret.value) :
         call' = [fn |-> "approval",
                  args |-> [required |-> call.ret.value[i], existing |-> existing],
                  ret |-> approval(call.ret.value[i], existing)]
    /\ UNCHANGED competition

\* Solution::approvals of the solution, every read of the chain succeeding.
Approvals(chain) ==
    /\ call.fn = "allowances"
    /\ call.ret # Pending
    /\ \E iteration \in Iterations(Normalized(<<>>, flat_map(call.args.interactions))) :
         call' = [fn |-> "approvals",
                  args |-> [solution |-> call.args, chain |-> chain],
                  ret |-> Ok(approvals(call.args, iteration, chain))]
    /\ UNCHANGED competition

\* Solution::approvals of the solution, a read of the chain failing.
ApprovalsError ==
    /\ call.fn = "allowances"
    /\ call.ret # Pending
    /\ call.ret.value # <<>>
    /\ call' = [fn |-> "approvals",
                args |-> [solution |-> call.args, chain |-> <<>>],
                ret |-> Err("Blockchain")]
    /\ UNCHANGED competition

NextAllowances ==
    \/ Allowances
    \/ \E existing \in ExistingAllowances : Approval(existing)
    \/ \E chain \in Chains : Approvals(chain)
    \/ ApprovalsError

SpecAllowances == InitAllowances /\ [][NextAllowances]_vars

\* ------------------------------------------------------------------ solvers
\* Fee::Protocol and Fee::Surplus of the solvers' solution.
Protocol == [kind |-> "Protocol"]
Surplus(amount) == [kind |-> "Surplus", amount |-> amount]

\* Fee::surplus: <<>> is None.
surplus(fee) == IF fee.kind = "Surplus" THEN <<fee.amount>> ELSE <<>>

\* U256::checked_add that wraps around like overflowing_add: always Some.
checked_add_Wrapping(a, b) == <<(a + b) % (MaxU256 + 1)>>

\* U256::checked_add: <<>> is None, the sum does not fit.
checked_add(a, b) == IF a + b > MaxU256 THEN <<>> ELSE <<a + b>>

\* Order::has_solver_fee: the solver computes the fee of limit orders.
has_solver_fee(order) == order.class = "Limit"

\* Fulfillment::new that leaves the surplus fee out of what a sell order fills.
Fulfillment_new_NoFee(order, amount_executed, fee) ==
    IF (fee.kind = "Surplus") # has_solver_fee(order)
    THEN <<>>
    ELSE LET fill == IF order.side = "Buy" THEN order.buy.amount ELSE order.sell.amount
             full == amount_executed
         IN  IF \/ ~order.partially_fillable /\ full # fill
                \/ order.partially_fillable /\ full > fill
             THEN <<>>
             ELSE <<[order |-> order, executed |-> amount_executed, fee |-> fee]>>

\* Fulfillment::new: <<>> is None.
Fulfillment_new(order, amount_executed, fee) ==
    IF (fee.kind = "Surplus") # has_solver_fee(order)
    THEN <<>>
    ELSE LET fill == IF order.side = "Buy" THEN order.buy.amount ELSE order.sell.amount
             full == IF order.side = "Buy"
                     THEN <<amount_executed>>
                     ELSE checked_add(amount_executed,
                                      IF surplus(fee) = <<>> THEN 0 ELSE surplus(fee)[1])
         IN  IF full = <<>>
             THEN <<>>
             ELSE IF \/ ~order.partially_fillable /\ full[1] # fill
                     \/ order.partially_fillable /\ full[1] > fill
                  THEN <<>>
                  ELSE <<[order |-> order, executed |-> amount_executed, fee |-> fee]>>

\* Fulfillment::fill that fills the sell amount of every order.
Fulfillment_fill_SellAmount(order) ==
    Fulfillment_new(order, order.sell.amount, Protocol)

\* Fulfillment::fill: the order executed in full, at the protocol fee.
Fulfillment_fill(order) ==
    LET amount_executed == IF order.side = "Buy" THEN order.buy.amount
                           ELSE order.sell.amount
    IN  Fulfillment_new(order, amount_executed, Protocol)

\* The orders of the solvers' auction, with all amounts of a U256.
SolverOrders ==
    [side : {"Buy", "Sell"},
     sell : [amount : 0..MaxU256],
     buy : [amount : 0..MaxU256],
     partially_fillable : BOOLEAN,
     class : {"Market", "Limit"}]

Fees == {Protocol} \cup {Surplus(amount) : amount \in 0..MaxU256}

\* Fulfillment::new or Fulfillment::fill is called.
InitFulfillment ==
    /\ Constructed
    /\ \E order \in SolverOrders :
         \/ \E amount_executed \in 0..MaxU256 :
              \E fee \in Fees :
                call = [fn |-> "Fulfillment::new",
                        args |-> [order |-> order, executed |-> amount_executed, fee |-> fee],
                        ret |-> Pending]
         \/ call = [fn |-> "Fulfillment::fill", args |-> [order |-> order], ret |-> Pending]

\* Fulfillment::new returns.
FulfillmentNew ==
    /\ call.fn = "Fulfillment::new"
    /\ call.ret = Pending
    /\ call' = [call EXCEPT
                  !.ret = Ok(Fulfillment_new(call.args.order, call.args.executed, call.args.fee))]
    /\ UNCHANGED competition

\* Fulfillment::fill returns.
FulfillmentFill ==
    /\ call.fn = "Fulfillment::fill"
    /\ call.ret = Pending
    /\ call' = [call EXCEPT !.ret = Ok(Fulfillment_fill(call.args.order))]
    /\ UNCHANGED competition

NextFulfillment == FulfillmentNew \/ FulfillmentFill

SpecFulfillment == InitFulfillment /\ [][NextFulfillment]_vars

\* ------------------------------------------------------------------ baseline
\* The pools that the baseline solver routes through: a constant product pool
\* of the tokens A and B, with its reserves.
Pools == {[id |-> 0, reserves |-> [t \in {"A", "B"} |-> IF t = "A" THEN a ELSE b]] :
            <<a, b>> \in {<<4, 6>>, <<6, 5>>}}

\* What the pool gives out of the token `to` for the input of the token `from`.
out_given_in(pool, from, to, input) ==
    (pool.reserves[to] * input) \div (pool.reserves[from] + input)

\* What the pool takes of the token `from` to give the output of the token
\* `to`: <<>> when the pool does not hold as much.
in_given_out(pool, from, to, output) ==
    IF output >= pool.reserves[to] THEN <<>>
    ELSE <<((pool.reserves[from] * output) \div (pool.reserves[to] - output)) + 1>>

\* The swap that fills the order through the pool: the input and the output of
\* the pool, <<>> when the pool does not meet the limit price of the order.
Route(order, pool) ==
    IF order.side = "Sell"
    THEN LET output == out_given_in(pool, order.sell.token, order.buy.token, order.sell.amount)
         IN  IF output >= order.buy.amount /\ output > 0
             THEN <<[input |-> Asset(order.sell.token, order.sell.amount),
                     output |-> Asset(order.buy.token, output)]>>
             ELSE <<>>
    ELSE LET input == in_given_out(pool, order.sell.token, order.buy.token, order.buy.amount)
         IN  IF input # <<>> /\ input[1] <= order.sell.amount
             THEN <<[input |-> Asset(order.sell.token, input[1]),
                     output |-> Asset(order.buy.token, order.buy.amount)]>>
             ELSE <<>>

\* Single that prices each token at the amount of it that is swapped.
Single_Swapped(id, order, swap, pool) ==
    [id |-> id,
     prices |-> [t \in {order.sell.token, order.buy.token} |->
                    IF t = order.sell.token THEN swap.input.amount ELSE swap.output.amount],
     trades |-> <<[kind |-> "fulfillment", order |-> order.uid,
                   executedAmount |-> IF order.side = "Sell" THEN order.sell.amount
                                      ELSE order.buy.amount]>>,
     interactions |-> <<[kind |-> "liquidity", id |-> pool.id,
                         input |-> swap.input, output |-> swap.output]>>]

\* The solution of one order swapped through one pool: the sell token is priced
\* at the output of the swap and the buy token at its input, the order is
\* filled, and the swap is the one interaction.
Single(id, order, swap, pool) ==
    [id |-> id,
     prices |-> [t \in {order.sell.token, order.buy.token} |->
                    IF t = order.sell.token THEN swap.output.amount ELSE swap.input.amount],
     trades |-> <<[kind |-> "fulfillment", order |-> order.uid,
                   executedAmount |-> IF order.side = "Sell" THEN order.sell.amount
                                      ELSE order.buy.amount]>>,
     interactions |-> <<[kind |-> "liquidity", id |-> pool.id,
                         input |-> swap.input, output |-> swap.output]>>]

\* The baseline solver: each order of the auction is routed on its own through
\* the pool as the auction gives it, and every order that has a route yields a
\* solution, numbered by the position of its order.
RECURSIVE Baseline(_, _, _)
Baseline(auction_orders, pool, i) ==
    IF i > Len(auction_orders) THEN <<>>
    ELSE LET swap == Route(auction_orders[i], pool)
         IN  (IF swap = <<>> THEN <<>>
              ELSE <<Single(i - 1, auction_orders[i], swap[1], pool)>>)
                 \o Baseline(auction_orders, pool, i + 1)

\* The orders of the auctions given to the baseline solver: fill-or-kill market
\* orders between the tokens A and B.
SwapOrders ==
    {[uid |-> 0, side |-> side,
      sell |-> Asset(pair[1], sell), buy |-> Asset(pair[2], buy)] :
        side \in {"Sell", "Buy"}, pair \in {<<"A", "B">>, <<"B", "A">>},
        sell \in 1..MaxSwap, buy \in 1..MaxSwap}

\* The auction given to the baseline solver: its orders, with uids of their
\* own, and a pool.
BaselineAuction(auction_orders, pool) ==
    [orders |-> [i \in 1..Len(auction_orders) |-> [auction_orders[i] EXCEPT !.uid = i]],
     pool |-> pool]

\* The baseline solver is asked to solve an auction of one order or of two.
InitBaseline ==
    /\ Constructed
    /\ \E n \in 1..2 :
         \E auction_orders \in [1..n -> SwapOrders] :
           \E pool \in Pools :
             call = [fn |-> "baseline", args |-> BaselineAuction(auction_orders, pool),
                     ret |-> Pending]

\* The baseline solver answers.
BaselineSolve ==
    /\ call.fn = "baseline"
    /\ call.ret = Pending
    /\ call' = [call EXCEPT !.ret = Ok(Baseline(call.args.orders, call.args.pool, 1))]
    /\ UNCHANGED competition

NextBaseline == BaselineSolve

SpecBaseline == InitBaseline /\ [][NextBaseline]_vars

\* ------------------------------------------------------------------ legacy
\* The response of a legacy solver, as far as its interactions go (the trades
\* and the prices of the response do not depend on them): `orders` are the
\* executions of the orders, in the order the map yields them, each of a
\* liquidity order or of an order that the mapping of the auction does not
\* know; `amms` are the executions on the pools, in the order the map yields
\* them, each of a pool that the mapping knows or not; `interaction_data` are
\* the custom interactions; `approvals` are the approvals. An exec_plan is
\* <<>> (none) or <<[coordinates, internal]>>, the coordinates given by their
\* rank in the order of the coordinates.
Coordinates == {0, 1}
ExecPlans == {<<[coordinates |-> c, internal |-> b]>> : c \in Coordinates, b \in BOOLEAN}

\* solution::Allowance of the solvers.
SolverAllowance(spender, token, amount) ==
    [spender |-> spender, asset |-> [token |-> token, amount |-> amount]]

\* solution::Interaction::Liquidity and solution::Interaction::Custom.
LiquidityInteraction(liquidity, internalize) ==
    [kind |-> "Liquidity", liquidity |-> liquidity, internalize |-> internalize]
CustomInteraction(target, internalize, custom_allowances) ==
    [kind |-> "Custom", target |-> target, internalize |-> internalize,
     allowances |-> custom_allowances]

\* exec_plan.as_ref().map(|e| &e.coordinates): <<>> is None.
coordinate(exec_plan) == IF exec_plan = <<>> THEN <<>> ELSE <<exec_plan[1].coordinates>>
\* exec_plan.as_ref().map(|e| e.internal).unwrap_or_default()
internal(exec_plan) == IF exec_plan = <<>> THEN FALSE ELSE exec_plan[1].internal

\* Option::cmp of two coordinates is Less: None is before Some.
cmp_Less(a, b) ==
    \/ a = <<>> /\ b # <<>>
    \/ a # <<>> /\ b # <<>> /\ a[1] < b[1]

\* interactions.sort_by(|(_, a), (_, b)| a.cmp(b)): a stable sort, the elements
\* that compare equal stay in the order they were pushed in.
RECURSIVE sort_by(_)
sort_by(pairs) ==
    IF pairs = <<>> THEN <<>>
    ELSE LET n == Len(pairs)
             sorted == sort_by(SubSeq(pairs, 1, n - 1))
             k == Cardinality({i \in 1..Len(sorted) :
                                 ~cmp_Less(pairs[n].coordinate, sorted[i].coordinate)})
         IN  SubSeq(sorted, 1, k) \o <<pairs[n]>> \o SubSeq(sorted, k + 1, Len(sorted))

\* The interactions pushed for the executions of the liquidity orders.
FromOrders(model) ==
    [i \in 1..Len(model.orders) |->
        [interaction |-> LiquidityInteraction(<<"order", i>>,
                                              internal(model.orders[i].exec_plan)),
         coordinate |-> coordinate(model.orders[i].exec_plan)]]

\* The interactions pushed for the executions on the pools.
RECURSIVE FromAmms(_, _)
FromAmms(model, i) ==
    IF i > Len(model.amms) THEN <<>>
    ELSE [j \in 1..Len(model.amms[i].execution) |->
            [interaction |-> LiquidityInteraction(<<"amm", i>>,
                                                  model.amms[i].execution[j].exec_plan[1].internal),
             coordinate |-> <<model.amms[i].execution[j].exec_plan[1].coordinates>>]]
         \o FromAmms(model, i + 1)

\* The interactions pushed for the custom interactions, without allowances.
FromInteractionData(model) ==
    [i \in 1..Len(model.interaction_data) |->
        [interaction |-> CustomInteraction(model.interaction_data[i].target,
                                           internal(model.interaction_data[i].exec_plan),
                                           <<>>),
         coordinate |-> coordinate(model.interaction_data[i].exec_plan)]]

\* The loop that adds the allowances, taking the first custom interaction.
AddAllowances_AnyCustom(pairs, custom_allowances) ==
    LET found == {i \in 1..Len(pairs) : pairs[i].interaction.kind = "Custom"}
    IN  IF found = {} THEN pairs
        ELSE LET first == CHOOSE i \in found : \A j \in found : i <= j
             IN  [pairs EXCEPT ![first].interaction.allowances = custom_allowances]

\* The loop that adds all allowances to the first custom interaction that is
\* not internalized, and stops there.
AddAllowances(pairs, custom_allowances) ==
    LET found == {i \in 1..Len(pairs) :
                    /\ pairs[i].interaction.kind = "Custom"
                    /\ ~pairs[i].interaction.internalize}
    IN  IF found = {} THEN pairs
        ELSE LET first == CHOOSE i \in found : \A j \in found : i <= j
             IN  [pairs EXCEPT ![first].interaction.allowances = custom_allowances]

\* to_domain_solution: the interactions of the domain solution, or the error
\* of an order or of a pool that is not part of the auction.
to_domain_solution(model) ==
    IF \E i \in 1..Len(model.orders) : model.orders[i].kind = "Unknown"
    THEN Err("solution contains order not part of auction")
    ELSE IF \E i \in 1..Len(model.amms) : ~model.amms[i].known
    THEN Err("uses unknown liquidity")
    ELSE LET pushed == FromOrders(model) \o FromAmms(model, 1) \o FromInteractionData(model)
             sorted == sort_by(pushed)
             custom_allowances ==
                 [i \in 1..Len(model.approvals) |->
                     SolverAllowance(model.approvals[i].spender, model.approvals[i].token,
                                     model.approvals[i].amount)]
             added == AddAllowances(sorted, custom_allowances)
         IN  Ok([interactions |-> [i \in 1..Len(added) |-> added[i].interaction]])

\* The executions of orders, the executions on pools, the custom interactions
\* and the approvals of the responses.
LegacyOrders ==
    {[kind |-> "Unknown", exec_plan |-> <<>>]}
        \cup {[kind |-> "Liquidity", exec_plan |-> e] : e \in ExecPlans \cup {<<>>}}
LegacyAmms ==
    {[known |-> FALSE, execution |-> <<>>]}
        \cup {[known |-> TRUE, execution |-> <<[exec_plan |-> e]>>] : e \in ExecPlans}
LegacyInteractions(target) ==
    {[target |-> target, exec_plan |-> e] : e \in ExecPlans \cup {<<>>}}
LegacyApprovals(n) ==
    [i \in 1..n |-> [spender |-> i, token |-> "A", amount |-> i]]

\* to_domain_solution is called on the response of the solver.
InitLegacy ==
    /\ Constructed
    /\ \E no \in 0..MaxLiquidity :
         \E na \in 0..(MaxLiquidity - no) :
           \E nc \in 0..MaxCustom :
             \E np \in 0..MaxApprovals :
               \E os \in [1..no -> LegacyOrders] :
                 \E as \in [1..na -> LegacyAmms] :
                   \E cs \in [1..nc -> UNION {LegacyInteractions(t) : t \in 1..nc}] :
                     /\ \A i \in 1..nc : cs[i].target = i
                     /\ call = [fn |-> "to_domain_solution",
                                args |-> [orders |-> os, amms |-> as, interaction_data |-> cs,
                                          approvals |-> LegacyApprovals(np)],
                                ret |-> Pending]

\* to_domain_solution returns.
ToDomainSolution ==
    /\ call.fn = "to_domain_solution"
    /\ call.ret = Pending
    /\ call' = [call EXCEPT !.ret = to_domain_solution(call.args)]
    /\ UNCHANGED competition

NextLegacy == ToDomainSolution

SpecLegacy == InitLegacy /\ [][NextLegacy]_vars

\* ------------------------------------------------------------------ claims
\* The step of caller p that leaves the position `at`.
Leaves(p, at) == pc[p] = at /\ pc'[p] # at

\* C1: a settle that obtains the settlement leaves the slot empty, the slot
\* stays empty until a solve installs a settlement, and every settle that takes
\* from the slot in between returns SolutionNotAvailable.
C1_IdempotentSettle ==
    /\ [](lastOp.op \in {"take", "refuse"} => settlement = <<>>)
    /\ [][\A p \in Procs : Leaves(p, "take") =>
            /\ settlement' = <<>>
            /\ pc'[p] = "execute" => lastOp'.op = "take"
            /\ lastOp.op \in {"take", "refuse"} =>
                 /\ pc'[p] = "idle"
                 /\ result'[p] = [kind |-> "Err", err |-> "SolutionNotAvailable"]]_vars

\* A settle was refused after a settle had consumed the settlement, with no
\* install in between.
C1_Witness ==
    /\ lastOp.op = "refuse"
    /\ \E p \in Procs : result[p] = [kind |-> "Err", err |-> "SolutionNotAvailable"]

\* C2: settle on Reserved(s) empties the slot, hands s to the mempools exactly
\* once and returns the internalized and uninternalized calldata of s.
C2_SettleReserved ==
    /\ [](\A p \in Procs : result[p].kind = "Calldata" =>
            /\ Len(executed[p]) = 1
            /\ result[p].internalized =
                 [settlement |-> executed[p][1], internalization |-> "Enable"]
            /\ result[p].uninternalized =
                 [settlement |-> executed[p][1], internalization |-> "Disable"])
    /\ [][\A p \in Procs :
            /\ (Leaves(p, "take") /\ settlement # <<>>) =>
                 /\ settlement' = <<>>
                 /\ pc'[p] = "execute"
                 /\ popped'[p] = settlement[1]
                 /\ executed'[p] = <<>>
            /\ Leaves(p, "execute") =>
                 /\ pc'[p] = "idle"
                 /\ executed'[p] = <<popped[p]>>
                 /\ result'[p].kind = "Calldata"
                 /\ result'[p].internalized.settlement = popped[p]
                 /\ result'[p].uninternalized.settlement = popped[p]]_vars

\* A settle has returned the calldata of the settlement it handed over, and
\* the slot is empty.
C2_Witness ==
    \E p \in Procs :
        /\ result[p].kind = "Calldata"
        /\ executed[p] # <<>>
        /\ settlement = <<>>
        /\ lastOp.op = "take"

\* C3: settle on an empty slot returns SolutionNotAvailable, leaves the slot
\* empty and hands nothing to the mempools, also when no solve preceded it.
C3_SettleIdle ==
    /\ [](\A p \in Procs :
            result[p] = [kind |-> "Err", err |-> "SolutionNotAvailable"] => executed[p] = <<>>)
    /\ [][\A p \in Procs : (Leaves(p, "take") /\ settlement = <<>>) =>
            /\ settlement' = <<>>
            /\ pc'[p] = "idle"
            /\ result'[p] = [kind |-> "Err", err |-> "SolutionNotAvailable"]
            /\ executed'[p] = <<>>]_vars

\* A settle that no install preceded was refused.
C3_Witness ==
    /\ lastOp.op = "none"
    /\ \E p \in Procs : result[p] = [kind |-> "Err", err |-> "SolutionNotAvailable"]

\* C4: the install of a successful solve overwrites whatever the slot holds and
\* the call returns a Reveal; the settle that follows an install obtains the
\* settlement of that install, not one installed before it.
C4_SolveOverwrites ==
    [][\A p \in Procs :
         /\ Leaves(p, "install") =>
              /\ settlement' = <<best[p].settlement>>
              /\ result'[p].kind = "Reveal"
         /\ (Leaves(p, "take") /\ lastOp.op = "install") =>
              /\ pc'[p] = "execute"
              /\ popped'[p] = lastOp.settlement]_vars

\* After one solve has returned its Reveal, a solve for another auction is
\* about to install over the reserved settlement.
C4_Witness ==
    \E p, q \in Procs :
        /\ pc[p] = "install"
        /\ result[q].kind = "Reveal"
        /\ lastOp.op = "install"
        /\ settlement # <<>>
        /\ settlement[1].auction_id # best[p].settlement.auction_id

\* What a solve call does next, other than being dropped.
Progress(p) ==
    \/ FetchDone(p)
    \/ SolverError(p)
    \/ EncodeDone(p)
    \/ MergeAttempt(p)
    \/ Score(p)
    \/ Pick(p)
    \/ SolveLock(p)
    \/ SolveInstall(p)

\* C5: concurrent solve calls do not exclude one another: a solve in flight can
\* always go on, or waits for a guard that its holder is about to drop; and the
\* slot holds nothing but the settlement of the last install.
C5_LastCommitWins ==
    /\ lastOp.op = "install" => settlement = <<lastOp.settlement>>
    /\ settlement # <<>> => lastOp.op = "install"
    /\ \A p \in Procs :
         pc[p] \in {"fetch", "solver", "encode", "merge", "score", "pick", "lock", "install"} =>
            \/ ENABLED Progress(p)
            \/ /\ pc[p] = "lock"
               /\ lock \in Procs
               /\ pc[lock] \in {"install", "take", "read"}

\* Two solve calls are at their install at once, with different settlements.
C5_Witness ==
    \E p, q \in Procs :
        /\ pc[p] = "install"
        /\ pc[q] = "lock"
        /\ best[p].settlement # best[q].settlement

\* C6: a solve whose deadline leaves less than the buffer returns
\* DeadlineExceeded, has not invoked the solver and leaves the slot as it was.
C6_DeadlineSliver ==
    /\ [](\A p \in Procs :
            result[p] = [kind |-> "Err", err |-> "DeadlineExceeded"] => ~solverCalled[p])
    /\ [][\A p \in Procs :
            (/\ Leaves(p, "fetch")
             /\ result'[p].kind # "Cancelled"
             /\ auction[p].deadline - now < Buffer) =>
                /\ pc'[p] = "idle"
                /\ result'[p] = [kind |-> "Err", err |-> "DeadlineExceeded"]
                /\ ~solverCalled'[p]
                /\ settlement' = settlement
                /\ lastOp' = lastOp]_vars

\* A solve returned DeadlineExceeded while a settlement was reserved.
C6_Witness ==
    \E p \in Procs :
        /\ result[p] = [kind |-> "Err", err |-> "DeadlineExceeded"]
        /\ settlement # <<>>

\* C7: a solve that is encoding or merging when its deadline is reached ends
\* with DeadlineExceeded, and no solve installs a settlement and returns a
\* Reveal after its deadline.
C7_DeadlineRespected ==
    [][\A p \in Procs :
         /\ (/\ pc[p] \in {"encode", "merge"}
             /\ <<pc[p], idx[p]>> # <<pc'[p], idx'[p]>>
             /\ now > auction[p].deadline
             /\ result'[p].kind # "Cancelled") =>
                result'[p] = [kind |-> "Err", err |-> "DeadlineExceeded"]
         /\ Leaves(p, "install") => now <= auction[p].deadline]_vars

\* C8: a solve dropped at an await leaves the slot and the mutex as they were,
\* nothing of the call is left to run, and whoever writes the slot is a call
\* that has not been dropped.
C8_CancelNoWrite ==
    /\ [](\A p \in Procs : result[p].kind = "Cancelled" =>
            /\ pc[p] = "idle"
            /\ lock # p
            /\ solutions[p] = <<>> /\ settlements[p] = <<>> /\ results[p] = <<>>
            /\ popped[p] = NoSettlement /\ best[p] = NoBest)
    /\ [][\A p \in Procs :
            /\ (result[p].kind # "Cancelled" /\ result'[p].kind = "Cancelled") =>
                 /\ result'[p].at \in Suspension
                 /\ settlement' = settlement
                 /\ lock' = lock
                 /\ lastOp' = lastOp
            /\ (lock = p /\ settlement' # settlement) => result[p] = Pending]_vars

\* A solve was dropped at a merge attempt while a settlement was reserved.
C8_Witness ==
    \E p \in Procs :
        /\ result[p] = [kind |-> "Cancelled", at |-> "merge"]
        /\ settlement # <<>>

\* C9: the mutex is held only in the sections that install, take or read the
\* slot, never at an await, during submission or before the work of solve is
\* finished; so its holder can always drop it at once.
C9_ShortCriticalSections ==
    /\ \A p \in Procs : lock = p <=> pc[p] \in {"install", "take", "read"}
    /\ \A p \in Procs : pc[p] \in Suspension \cup {"score", "pick", "lock", "execute"} => lock # p
    /\ \A p \in Procs : pc[p] = "install" =>
         /\ solutions[p] = <<>> /\ settlements[p] = <<>> /\ results[p] = <<>>
         /\ best[p] # NoBest
    /\ lock \in Procs => ENABLED (SolveInstall(lock) \/ SettleTake(lock) \/ AuctionIdRead(lock))

\* A settle holds the guard while a solve is at an await.
C9_Witness ==
    \E p, q \in Procs :
        /\ pc[p] \in Suspension
        /\ pc[q] = "take"
        /\ lock = q

\* C10: the slot holds no settlement or exactly one.
C10_AtMostOne ==
    /\ Len(settlement) <= 1
    /\ \A i \in 1..Len(settlement) :
         /\ settlement[i].auction_id \in AuctionIds
         /\ settlement[i].orders # {}

\* A solve is about to install while the slot holds another settlement.
C10_Witness ==
    \E p \in Procs :
        /\ pc[p] = "install"
        /\ Len(settlement) = 1
        /\ settlement[1] # best[p].settlement

\* C11: auction_id is a pure read: it returns the auction id of the reserved
\* settlement, or none when the slot is empty, and neither taking the guard nor
\* the read changes the slot or what the next settle finds; the guard is free
\* again after the read.
C11_AuctionIdPure ==
    [][\A p \in Procs :
         /\ (pc[p] = "idle" /\ pc'[p] = "read") =>
              /\ settlement' = settlement
              /\ lastOp' = lastOp
         /\ Leaves(p, "read") =>
              /\ settlement' = settlement
              /\ lastOp' = lastOp
              /\ lock' = NoProc
              /\ pc'[p] = "idle"
              /\ executed'[p] = <<>>
              /\ result'[p].kind = "AuctionId"
              /\ result'[p].id = IF settlement = <<>> THEN <<>> ELSE <<settlement[1].auction_id>>
              /\ lastOp.op = "install" => result'[p].id = <<lastOp.settlement.auction_id>>
              /\ lastOp.op \in {"none", "take", "refuse"} => result'[p].id = <<>>]_vars

\* auction_id returned the id of the reserved settlement, and the settle that
\* came after it took that settlement.
C11_Witness ==
    \E p, q \in Procs :
        /\ pc[p] = "idle"
        /\ result[p].kind = "AuctionId"
        /\ result[p].id # <<>>
        /\ pc[q] = "execute"
        /\ result[p].id = <<popped[q].auction_id>>
        /\ settlement = <<>>

C13_FireAndForget ==
    /\ [](settlement # <<>> => lastOp.op = "install")
    /\ [](\A p \in Procs : submission[p] # NoSubmission =>
            /\ pc[p] = "idle"
            /\ result[p].kind = "Calldata")
    /\ [][\A p \in Procs :
            /\ Leaves(p, "execute") =>
                 /\ pc'[p] = "idle"
                 /\ result'[p].kind = "Calldata"
                 /\ submission'[p] = InFlight
                 /\ settlement' = settlement
            /\ (submission[p] = InFlight /\ submission'[p] \in Outcomes) =>
                 /\ settlement' = settlement
                 /\ lock' = lock
                 /\ lastOp' = lastOp
                 /\ pc' = pc
                 /\ result' = result]_vars

\* A submission was reverted after its settle had returned, and the slot is
\* still empty.
C13_Witness ==
    \E p \in Procs :
        /\ submission[p] = "Reverted"
        /\ result[p].kind = "Calldata"
        /\ lastOp.op = "take"
        /\ settlement = <<>>

\* The solutions of a round that trade a user order, and the user orders of one.
IsUserTrade(trade) == trade.tag = "Fulfillment" /\ trade.order.kind \in {"Market", "Limit"}
HasUserTrade(solution) == \E i \in 1..Len(solution.trades) : IsUserTrade(solution.trades[i])
UserOrders(solution) ==
    {solution.trades[i].order.uid : i \in {j \in 1..Len(solution.trades) :
                                               IsUserTrade(solution.trades[j])}}

\* The scored settlements are, in their order, some of the given settlements.
IsSubSeq(scored, given) ==
    \E f \in [1..Len(scored) -> 1..Len(given)] :
        /\ \A i, j \in 1..Len(scored) : i < j => f[i] < f[j]
        /\ \A i \in 1..Len(scored) : scored[i].settlement = given[f[i]]

NotFound == [kind |-> "Err", err |-> "SolutionNotFound"]

\* C14: no failure of one encoding, merge or scoring ends solve: the call stays
\* in flight through encoding, merging and scoring, and at the pick it goes on
\* to install and return a Reveal whenever a scored settlement is left;
\* SolutionNotFound is returned only at the pick, with none left, after the
\* solver was called.
C14_ErrorsNotFatal ==
    /\ [](\A p \in Procs : result[p] = NotFound => solverCalled[p])
    /\ [][\A p \in Procs :
            /\ (Leaves(p, "encode") /\ result'[p].kind # "Cancelled") =>
                 /\ result'[p] = Pending
                 /\ pc'[p] \in {"merge", "score"}
            /\ (pc[p] = "merge" /\ result'[p].kind # "Cancelled") =>
                 /\ result'[p] = Pending
                 /\ pc'[p] \in {"merge", "score"}
            /\ Leaves(p, "score") =>
                 /\ result'[p] = Pending
                 /\ pc'[p] = "pick"
                 /\ IsSubSeq(scores'[p], results[p])
            /\ Leaves(p, "pick") =>
                 IF scores[p] # <<>>
                 THEN /\ result'[p] = Pending
                      /\ pc'[p] = "lock"
                      /\ \E k \in 1..Len(scores[p]) : best'[p] = scores[p][k]
                 ELSE /\ result'[p] = NotFound
                      /\ pc'[p] = "idle"
            /\ Leaves(p, "lock") => pc'[p] = "install"
            /\ Leaves(p, "install") =>
                 result'[p] = [kind |-> "Reveal", score |-> best[p].score,
                               orders |-> best[p].settlement.orders]
            /\ (result[p] # NotFound /\ result'[p] = NotFound) =>
                 (pc[p] = "pick" /\ scores[p] = <<>>)]_vars

\* A settlement failed scoring, another did not, and the call goes on to lock
\* the slot.
C14_Witness ==
    \E p \in Procs :
        /\ pc[p] = "pick"
        /\ scores[p] # <<>>
        /\ Len(scores[p]) < Len(results[p])
        /\ ENABLED (Pick(p) /\ pc'[p] = "lock")

C16_BestScore ==
    [][\A p \in Procs :
         /\ Leaves(p, "score") => IsSubSeq(scores'[p], results[p])
         /\ (Leaves(p, "pick") /\ scores[p] # <<>>) =>
              \E k \in 1..Len(scores[p]) :
                  /\ best'[p] = scores[p][k]
                  /\ \A j \in 1..Len(scores[p]) : scores[p][j].score <= scores[p][k].score
                  /\ \A j \in (k + 1)..Len(scores[p]) :
                       scores[p][j].score < scores[p][k].score
         /\ Leaves(p, "install") =>
              /\ settlement' = <<best[p].settlement>>
              /\ result'[p].kind = "Reveal"
              /\ result'[p].score = best[p].score]_vars

\* Two different settlements were scored the same, and the pick takes the
\* second.
C16_Witness ==
    \E p \in Procs :
        /\ pc[p] = "pick"
        /\ Len(scores[p]) = 2
        /\ scores[p][1].score = scores[p][2].score
        /\ scores[p][1].settlement # scores[p][2].settlement
        /\ ENABLED (Pick(p) /\ best'[p] = scores[p][2])

\* The settlements the merge loop still works on, the popped one included.
Working(p) == Len(settlements[p]) + (IF pc[p] = "merge" THEN 1 ELSE 0)
\* The same after the step.
WorkingNext(p) == Len(settlements'[p]) + (IF pc'[p] = "merge" THEN 1 ELSE 0)

\* C17: the merge loop terminates: a merge attempt either only moves on to the
\* next `other` of the scan, or ends an iteration, and then 2|W|+|R| is less
\* than before, one settlement having moved to the results or two having
\* become one; and n inputs take at most n(n-1)/2 merge attempts.
C17_MergeTerminates ==
    /\ [](\A p \in Procs :
            /\ pc[p] = "merge" => idx[p] \in 1..Len(settlements[p])
            /\ 2 * merger[p].attempts
                  <= Len(merger[p].inputs) * (Len(merger[p].inputs) - 1)
            /\ pc[p] \in {"merge", "score"} =>
                  2 * Working(p) + Len(results[p]) <= 2 * Len(merger[p].inputs))
    /\ [][\A p \in Procs :
            (/\ pc[p] = "merge"
             /\ result'[p].kind # "Cancelled"
             /\ <<pc'[p], idx'[p]>> # <<pc[p], idx[p]>>) =>
                /\ merger'[p].attempts = merger[p].attempts + 1
                /\ \/ /\ idx'[p] = idx[p] + 1
                      /\ pc'[p] = "merge"
                      /\ settlements'[p] = settlements[p]
                      /\ results'[p] = results[p]
                      /\ popped'[p] = popped[p]
                      /\ merger'[p].merged = merger[p].merged
                   \/ /\ 2 * WorkingNext(p) + Len(results'[p])
                            < 2 * Working(p) + Len(results[p])
                      /\ WorkingNext(p) < Working(p)
                      /\ merger'[p].merged - merger[p].merged \in {0, 1}
                      /\ (Working(p) + Len(results[p]))
                            - (WorkingNext(p) + Len(results'[p]))
                         = merger'[p].merged - merger[p].merged
                      /\ pc'[p] = "merge" => idx'[p] = 1]_vars

\* The merge loop ended after as many merge attempts as MaxInputs settlements
\* can take.
C17_Witness ==
    \E p \in Procs :
        /\ pc[p] = "score"
        /\ Len(merger[p].inputs) = MaxInputs
        /\ 2 * merger[p].attempts = MaxInputs * (MaxInputs - 1)

\* C18: when the merge loop has ended and no merge of two settlements that share
\* no order and agree on every common price has failed, no two settlements of
\* the results share no order and agree on every common price.
C18_ResultsMaximal ==
    \A p \in Procs :
        (pc[p] = "score" /\ ~merger[p].failed) =>
            \A i, j \in 1..Len(results[p]) :
                i # j =>
                    LET a == results[p][i]
                        b == results[p][j]
                    IN  \/ a.orders \cap b.orders # {}
                        \/ \E t \in DOMAIN a.prices \cap DOMAIN b.prices :
                              a.prices[t] # b.prices[t]

\* The merge loop ended with a merged settlement and one that merges with it
\* no more, of MaxInputs inputs, and no merge failed that could succeed.
C18_Witness ==
    \E p \in Procs :
        /\ pc[p] = "score"
        /\ ~merger[p].failed
        /\ Len(merger[p].inputs) = MaxInputs
        /\ merger[p].merged >= 1
        /\ Len(results[p]) >= 2

\* How often the order uid is in the settlements of the sequence.
RECURSIVE Occurrences(_, _)
Occurrences(uid, seq) ==
    IF seq = <<>> THEN 0
    ELSE (IF uid \in seq[1].orders THEN 1 ELSE 0) + Occurrences(uid, Tail(seq))

\* How often the settlement is in the sequence.
RECURSIVE Count(_, _)
Count(s, seq) ==
    IF seq = <<>> THEN 0
    ELSE (IF seq[1] = s THEN 1 ELSE 0) + Count(s, Tail(seq))

\* The settlements of the merge loop: the working vector, the popped one and
\* the results.
InLoop(p) ==
    settlements[p] \o (IF pc[p] = "merge" THEN <<popped[p]>> ELSE <<>>) \o results[p]

\* C19: the merge loop loses and duplicates nothing: at every point of the loop
\* and at its end each order is as often in its settlements as in its inputs,
\* every input is within one of its settlements with its prices, the
\* settlements are as many as the inputs less the merges; and with no merge
\* the results are the inputs, each as often.
C19_NothingLost ==
    \A p \in Procs :
        pc[p] \in {"merge", "score"} =>
            /\ \A uid \in UNION {s.orders : s \in Range(merger[p].inputs) \cup Range(InLoop(p))} :
                 Occurrences(uid, InLoop(p)) = Occurrences(uid, merger[p].inputs)
            /\ \A s \in Range(merger[p].inputs) :
                 \E r \in Range(InLoop(p)) :
                     /\ s.orders \subseteq r.orders
                     /\ \A t \in DOMAIN s.prices : r.prices[t] = s.prices[t]
            /\ Len(InLoop(p)) = Len(merger[p].inputs) - merger[p].merged
            /\ (pc[p] = "score" /\ merger[p].merged = 0) =>
                 \A s \in Range(merger[p].inputs) \cup Range(results[p]) :
                     Count(s, results[p]) = Count(s, merger[p].inputs)

\* The merge loop ended with MaxInputs inputs in fewer results, one merged.
C19_Witness ==
    \E p \in Procs :
        /\ pc[p] = "score"
        /\ Len(merger[p].inputs) = MaxInputs
        /\ merger[p].merged = 1
        /\ Len(results[p]) = MaxInputs - 1

\* C20: when the merge loop has ended, the best risk-adjusted score of its
\* results is at least the best risk-adjusted score of its inputs.
C20_MergerMonotone ==
    \A p \in Procs :
        (pc[p] = "score" /\ merger[p].inputs # <<>>) =>
            \E r \in Range(results[p]) :
                \A s \in Range(merger[p].inputs) : RiskAdjusted(r) >= RiskAdjusted(s)

\* ------------------------------------------------------------------ C21
\* The token has a clearing price among the solver's prices, the native token
\* through the wrapped token.
Priced(solution, token) ==
    (IF token = ETH_TOKEN THEN solution.weth ELSE token) \in DOMAIN solution.prices

\* Some user trade of the solution has no price for its sell or its buy token.
Unpriced(solution) ==
    \E i \in 1..Len(solution.trades) :
        /\ IsUserTrade(solution.trades[i])
        /\ ~ /\ Priced(solution, solution.trades[i].order.sell.token)
             /\ Priced(solution, solution.trades[i].order.buy.token)

\* C21: Solution::new returns InvalidClearingPrices if and only if some
\* fulfillment of a Market or Limit order has no price for wrap(sell token) or
\* for wrap(buy token); the trades of liquidity orders and the JIT trades never
\* cause the rejection, and otherwise the solution is returned with its fields
\* as they were given.
C21_InvalidClearingPrices ==
    (call.fn = "new" /\ call.ret # Pending) =>
        /\ call.ret = Err("InvalidClearingPrices") <=> Unpriced(call.args)
        /\ ~Unpriced(call.args) => call.ret = Ok(call.args)

\* Solution::new accepted a solution whose user trade buys the native token,
\* priced through the wrapped token only, next to a liquidity or JIT trade of a
\* token that has no price.
C21_Witness ==
    /\ call.fn = "new"
    /\ call.ret = Ok(call.args)
    /\ ETH_TOKEN \notin DOMAIN call.args.prices
    /\ \E i \in 1..Len(call.args.trades) :
          /\ IsUserTrade(call.args.trades[i])
          /\ call.args.trades[i].order.buy.token = ETH_TOKEN
    /\ \E i \in 1..Len(call.args.trades) :
          /\ ~IsUserTrade(call.args.trades[i])
          /\ call.args.trades[i].order.sell.token \notin DOMAIN call.args.prices

\* ------------------------------------------------------------------ C22
\* Some user trade of the solution is of an order that buys the native token.
BuysNative(solution) ==
    \E i \in 1..Len(solution.trades) :
        /\ IsUserTrade(solution.trades[i])
        /\ solution.trades[i].order.buy.token = ETH_TOKEN

\* The published prices hold the price `amount` of the token.
Published(prices, token, amount) ==
    \E k \in 1..Len(prices) : prices[k].token = token /\ prices[k].amount = amount

\* C22: whenever some user trade's order buys the native token, the prices that
\* clearing_prices publishes contain a price of the native token that equals the
\* solver's price of the wrapped token.
C22_NativeExtension ==
    (call.fn = "clearing_prices" /\ BuysNative(call.args)) =>
        /\ call.ret.kind = "Ok"
        /\ call.args.weth \in DOMAIN call.args.prices
        /\ Published(call.ret.value, ETH_TOKEN, call.args.prices[call.args.weth])

\* The prices of a solution whose order buys the native token were published;
\* the solver had given no price of the native token.
C22_Witness ==
    /\ call.fn = "clearing_prices"
    /\ BuysNative(call.args)
    /\ ETH_TOKEN \notin DOMAIN call.args.prices
    /\ call.ret.kind = "Ok"
    /\ Published(call.ret.value, ETH_TOKEN, call.args.prices[WETH])

\* ------------------------------------------------------------------ C23
\* Some user trade of the solution sells or buys the wrapped token.
TradesWrapped(solution) ==
    \E i \in 1..Len(solution.trades) :
        /\ IsUserTrade(solution.trades[i])
        /\ \/ solution.trades[i].order.sell.token = solution.weth
           \/ solution.trades[i].order.buy.token = solution.weth

\* The solver's price of the wrapped token is not among the published prices.
DroppedWrapped(solution, prices) ==
    /\ solution.weth \in DOMAIN solution.prices
    /\ \A k \in 1..Len(prices) : prices[k].token # solution.weth

\* The published prices are the solver's prices, each of them once.
ExactlySolverPrices(solution, prices) ==
    /\ Len(prices) = Cardinality(DOMAIN solution.prices)
    /\ \A token \in DOMAIN solution.prices :
          Published(prices, token, solution.prices[token])

\* C23: clearing_prices drops the price of the wrapped token exactly when some
\* user order buys the native token and no user trade sells or buys the
\* wrapped token; every other price of the solver is published with its amount
\* as given, and when no user order buys the native token the published prices
\* are exactly the solver's prices.
C23_WrappedDropped ==
    (call.fn = "clearing_prices" /\ call.ret.kind = "Ok") =>
        LET solution == call.args
            prices == call.ret.value
        IN  /\ DroppedWrapped(solution, prices)
                  <=> (BuysNative(solution) /\ ~TradesWrapped(solution))
            /\ \A token \in DOMAIN solution.prices \ {solution.weth} :
                  Published(prices, token, solution.prices[token])
            /\ \A k \in 1..Len(prices) :
                  \/ /\ prices[k].token \in DOMAIN solution.prices
                     /\ prices[k].amount = solution.prices[prices[k].token]
                  \/ /\ BuysNative(solution)
                     /\ k = Len(prices)
                     /\ prices[k] = Asset(ETH_TOKEN, solution.prices[solution.weth])
            /\ ~BuysNative(solution) => ExactlySolverPrices(solution, prices)

\* The price of the wrapped token was dropped from the prices of a solution
\* whose only use of it is an order that buys the native token, and the price
\* of the order's sell token was published as given.
C23_Witness ==
    /\ call.fn = "clearing_prices"
    /\ call.ret.kind = "Ok"
    /\ BuysNative(call.args)
    /\ ~TradesWrapped(call.args)
    /\ DroppedWrapped(call.args, call.ret.value)
    /\ "A" \in DOMAIN call.args.prices
    /\ Published(call.ret.value, "A", call.args.prices["A"])

\* ------------------------------------------------------------------ C24
\* The published prices hold a price of the token.
HasPrice(prices, token) == \E k \in 1..Len(prices) : prices[k].token = token

RECURSIVE Total(_, _)
Total(required, key) ==
    IF required = <<>> THEN 0
    ELSE (IF <<Head(required).token, Head(required).spender>> = key
          THEN Head(required).amount ELSE 0) + Total(Tail(required), key)

\* The amounts that the interactions require for the key, added up.
RECURSIVE TotalOf(_, _)
TotalOf(interactions, key) ==
    IF interactions = <<>> THEN 0
    ELSE Total(Head(interactions).allowances, key) + TotalOf(Tail(interactions), key)

\* The (token, spender) keys that occur in the interactions of the solution.
Uses(solution) ==
    {<<solution.interactions[i].allowances[j].token,
       solution.interactions[i].allowances[j].spender>> :
        <<i, j>> \in {ij \in (1..Len(solution.interactions)) \X (1..MaxAllowances + 1) :
                        ij[2] <= Len(solution.interactions[ij[1]].allowances)}}

Capped(n) == IF n > MaxU256 THEN MaxU256 ELSE n

\* The solutions that have the interactions of the solution in another order,
\* each with its allowances in another order.
Rearranged(solution) ==
    UNION {{[interactions |-> [i \in 1..Len(p) |-> [allowances |-> g[i]]]] :
                g \in {h \in [1..Len(p) -> UNION {Shuffles(p[i].allowances) : i \in 1..Len(p)}] :
                          \A i \in 1..Len(p) : h[i] \in Shuffles(p[i].allowances)}} :
           p \in Shuffles(solution.interactions)}

C26_ApprovalIff ==
    /\ call.fn = "approval" =>
          LET required == call.args.required
              existing == call.args.existing
          IN  /\ call.ret # <<>> <=> /\ existing.spender = required.spender
                                     /\ existing.token = required.token
                                     /\ required.amount > existing.amount
              /\ call.ret # <<>> => /\ call.ret[1].token = required.token
                                    /\ call.ret[1].spender = required.spender
    /\ (call.fn = "approvals" /\ call.ret.kind = "Ok") =>
          LET solution == call.args.solution
              chain == call.args.chain
              approved == call.ret.value
          IN  /\ \A key \in Uses(solution) :
                    (\E k \in 1..Len(approved) : <<approved[k].token, approved[k].spender>> = key)
                        <=> Capped(TotalOf(solution.interactions, key)) > chain[key]
              /\ \A k \in 1..Len(approved) :
                    /\ approved[k].amount = MaxU256
                    /\ <<approved[k].token, approved[k].spender>> \in Uses(solution)
                    /\ \A l \in 1..Len(approved) :
                          <<approved[k].token, approved[k].spender>>
                              = <<approved[l].token, approved[l].spender>> => k = l

\* A required allowance met an existing allowance of its spender and token and
\* of its amount, more than nothing: no approval.
C26_Witness ==
    /\ call.fn = "approval"
    /\ call.args.existing = call.args.required
    /\ call.args.required.amount > 0
    /\ call.ret = <<>>

\* ------------------------------------------------------------------ C27
\* C27: for every (token, spender) key that the interactions of a solution use,
\* the summed required amount, which saturates at the maximum U256, is at most
\* the existing allowance of the chain plus the approvals that approvals() adds
\* for the key.
C27_AllowanceSufficiency ==
    (call.fn = "approvals" /\ call.ret.kind = "Ok") =>
        \A key \in Uses(call.args.solution) :
            Capped(TotalOf(call.args.solution.interactions, key))
                <= call.args.chain[key] + Total(call.ret.value, key)

\* The requirements for a key add up to more than the maximum and the chain
\* allows less than the maximum: the key has an approval.
C27_Witness ==
    /\ call.fn = "approvals"
    /\ call.ret.kind = "Ok"
    /\ \E key \in Uses(call.args.solution) :
          /\ TotalOf(call.args.solution.interactions, key) > MaxU256
          /\ call.args.chain[key] = 1
          /\ Total(call.ret.value, key) = MaxU256

\* ------------------------------------------------------------------ C28
\* What the fulfillment fills of the order: the executed amount of a buy order,
\* the executed amount and the surplus fee of a sell order.
Filled(order, amount_executed, fee) ==
    IF order.side = "Buy" THEN amount_executed
    ELSE amount_executed + (IF fee.kind = "Surplus" THEN fee.amount ELSE 0)

\* The limit amount of the order: the buy amount of a buy order, the sell
\* amount of a sell order.
Limit(order) == IF order.side = "Buy" THEN order.buy.amount ELSE order.sell.amount

\* C28: Fulfillment::new returns a fulfillment if and only if the fee is
\* Surplus exactly when the order permits a solver-computed fee, and the filled
\* amount equals the order's limit amount when the order is not partially
\* fillable and does not exceed it when the order is partially fillable; in
\* every other case it returns None.
C28_FulfillmentNew ==
    (call.fn = "Fulfillment::new" /\ call.ret # Pending) =>
        LET order == call.args.order
            amount_executed == call.args.executed
            fee == call.args.fee
            valid == /\ (fee.kind = "Surplus") <=> (order.class = "Limit")
                     /\ IF order.partially_fillable
                        THEN Filled(order, amount_executed, fee) <= Limit(order)
                        ELSE Filled(order, amount_executed, fee) = Limit(order)
        IN  call.ret.value =
                IF valid THEN <<[order |-> order, executed |-> amount_executed, fee |-> fee]>>
                ELSE <<>>

\* A partially fillable sell order of a limit amount of the maximum, the
\* executed amount and the surplus fee adding up to more than a U256 holds: None.
C28_Witness ==
    /\ call.fn = "Fulfillment::new"
    /\ call.ret = Ok(<<>>)
    /\ call.args.order.side = "Sell"
    /\ call.args.order.partially_fillable
    /\ call.args.order.sell.amount = MaxU256
    /\ call.args.order.class = "Limit"
    /\ call.args.fee.kind = "Surplus"
    /\ call.args.executed + call.args.fee.amount > MaxU256

\* ------------------------------------------------------------------ C29
\* The order of the auction that the trade fulfills.
OrderOf(auction_orders, trade) ==
    CHOOSE o \in Range(auction_orders) : o.uid = trade.order

\* C29: every solution that the baseline solver returns for one order routed
\* through one pool has one trade and one interaction; its clearing prices obey
\* amount_sell * price[sell token] = amount_buy * price[buy token] for the
\* amounts that are swapped: price[sell token] is the output amount of the
\* interaction and price[buy token] its input amount; the executed amount is
\* the order's full sell amount for a sell order and its full buy amount for a
\* buy order; and two orders routed through the same pool yield two separate
\* solutions of one trade each, with the ids 0 and 1.
C29_BaselinePrices ==
    (call.fn = "baseline" /\ call.ret # Pending) =>
        LET solved == call.ret.value
        IN  /\ \A k \in 1..Len(solved) :
                  /\ Len(solved[k].trades) = 1
                  /\ Len(solved[k].interactions) = 1
                  /\ LET order == OrderOf(call.args.orders, solved[k].trades[1])
                         swap == solved[k].interactions[1]
                     IN  /\ swap.input.token = order.sell.token
                         /\ swap.output.token = order.buy.token
                         /\ solved[k].prices[order.sell.token] = swap.output.amount
                         /\ solved[k].prices[order.buy.token] = swap.input.amount
                         /\ swap.input.amount * solved[k].prices[order.sell.token]
                               = swap.output.amount * solved[k].prices[order.buy.token]
                         /\ solved[k].trades[1].executedAmount =
                               IF order.side = "Sell" THEN order.sell.amount
                               ELSE order.buy.amount
            /\ Len(solved) = 2 =>
                  /\ solved[1].id = 0 /\ solved[1].trades[1].order = 1
                  /\ solved[2].id = 1 /\ solved[2].trades[1].order = 2

\* A sell order and a buy order of the same tokens were routed through the
\* same pool, at different amounts: two solutions, of different prices.
C29_Witness ==
    /\ call.fn = "baseline"
    /\ call.ret # Pending
    /\ Len(call.ret.value) = 2
    /\ call.args.orders[1].side = "Sell"
    /\ call.args.orders[2].side = "Buy"
    /\ call.args.orders[1].sell.token = call.args.orders[2].sell.token
    /\ call.ret.value[1].prices # call.ret.value[2].prices
    /\ call.ret.value[1].interactions[1].input.amount
          # call.ret.value[1].interactions[1].output.amount

\* ------------------------------------------------------------------ C30
\* C30: the Reveal that a successful solve returns describes the settlement
\* that this very call installs in the slot: the pair picked is one of the
\* scored (score, settlement) pairs and stays the call's until the install,
\* Reveal.orders is the order set of the installed settlement and Reveal.score
\* the score computed for it; and as long as no other solve commits, the next
\* settle takes and submits that settlement.
C30_RevealDescribesInstalled ==
    [][\A p \in Procs :
         /\ (pc[p] = "pick" /\ pc'[p] = "lock") =>
              \E k \in 1..Len(scores[p]) : best'[p] = scores[p][k]
         /\ (pc[p] \in {"lock", "install"} /\ pc'[p] \in {"lock", "install"}) =>
              best'[p] = best[p]
         /\ result'[p].kind = "Reveal" =>
              \/ result[p] = result'[p]
              \/ /\ pc[p] = "install"
                 /\ settlement' = <<best[p].settlement>>
                 /\ lastOp' = Installed(best[p].settlement, now)
                 /\ result'[p].orders = best[p].settlement.orders
                 /\ result'[p].score = best[p].score
         /\ (lastOp.op = "install" /\ lastOp' # lastOp) =>
              \/ lastOp'.op = "install"
              \/ \E q \in Procs :
                    /\ pc[q] = "take" /\ pc'[q] = "execute"
                    /\ popped'[q] = lastOp.settlement
         /\ (pc[p] = "execute" /\ pc'[p] # "execute") =>
              /\ executed'[p] = <<popped[p]>>
              /\ result'[p] = Calldata(popped[p])]_vars

\* One caller holds the Reveal of its solve, of one order at least, and the
\* other caller's settle has returned the calldata of the settlement of the
\* revealed orders.
C30_Witness ==
    /\ result["p1"].kind = "Reveal"
    /\ result["p1"].orders # {}
    /\ result["p2"].kind = "Calldata"
    /\ result["p2"].internalized.settlement.orders = result["p1"].orders
    /\ executed["p2"] = <<result["p2"].internalized.settlement>>
    /\ lastOp.op = "take"

\* The errors that solve returns.
SolveErrors == {Err("SolutionNotFound"), Err("DeadlineExceeded"), Err("Solver")}

\* C31: a solve call that returns an error leaves the slot as it was: the slot
\* changes only where a call installs or takes, a call that installs returns a
\* Reveal, and the step that returns SolutionNotFound, DeadlineExceeded or a
\* Solver error leaves the slot, its guard and its last operation alone; so a
\* settlement reserved before stays reserved, and the settle that follows takes
\* it and hands it to the mempools.
C31_FailedSolveKeepsSlot ==
    /\ [](\A p \in Procs : (result[p] \in SolveErrors /\ lastOp.op = "install") =>
            settlement = <<lastOp.settlement>>)
    /\ [][/\ settlement' # settlement =>
              \E p \in Procs : Leaves(p, "install") \/ Leaves(p, "take")
          /\ \A p \in Procs :
               /\ Leaves(p, "install") => result'[p].kind = "Reveal"
               /\ (result[p] = Pending /\ result'[p] \in SolveErrors) =>
                    /\ pc[p] \in {"fetch", "solver", "pick"}
                    /\ pc'[p] = "idle"
                    /\ settlement' = settlement
                    /\ lock' = lock
                    /\ lastOp' = lastOp
               /\ (pc[p] = "idle" /\ pc'[p] = "take" /\ result[p] \in SolveErrors) =>
                    settlement' = settlement
               /\ (Leaves(p, "take") /\ settlement # <<>>) =>
                    /\ pc'[p] = "execute"
                    /\ popped'[p] = settlement[1]
               /\ Leaves(p, "execute") =>
                    /\ executed'[p] = <<popped[p]>>
                    /\ result'[p] = Calldata(popped[p])]_vars

\* A solve found no solution while the settlement of an earlier auction was
\* reserved, and its caller can settle next.
C31_Witness ==
    \E p \in Procs :
        /\ result[p] = Err("SolutionNotFound")
        /\ settlement # <<>>
        /\ lastOp.op = "install"
        /\ ENABLED SettleLock(p)

\* C32: a reserved settlement is submitted at most once. The takes of racing
\* settle calls are serialized by the guard; after an install the first take
\* obtains the settlement, and every take after it, until the next install,
\* returns SolutionNotAvailable and hands nothing to the mempools; the call
\* that obtained the settlement hands it over once and returns its calldata.
C32_SubmittedAtMostOnce ==
    /\ [](\A p, q \in Procs : (pc[p] = "take" /\ pc[q] = "take") => p = q)
    /\ [][/\ (lastOp.op \in {"take", "refuse"} /\ lastOp'.op = "install") =>
               \E p \in Procs : Leaves(p, "install")
          /\ \A p \in Procs :
               /\ Leaves(p, "take") =>
                    IF lastOp.op = "install"
                    THEN /\ pc'[p] = "execute"
                         /\ popped'[p] = lastOp.settlement
                         /\ settlement' = <<>>
                         /\ lastOp'.op = "take"
                    ELSE /\ pc'[p] = "idle"
                         /\ result'[p] = Err("SolutionNotAvailable")
                         /\ executed'[p] = <<>>
                         /\ settlement' = <<>>
                         /\ lastOp'.op # "install"
               /\ (executed'[p] # executed[p] /\ executed'[p] # <<>>) =>
                    /\ Leaves(p, "execute")
                    /\ executed'[p] = <<popped[p]>>
                    /\ result'[p] = Calldata(popped[p])]_vars

\* Two settle calls race: one has obtained the settlement and is about to hand
\* it over, the other holds the guard of the emptied slot.
C32_Witness ==
    \E p, q \in Procs :
        /\ pc[p] = "execute"
        /\ pc[q] = "take"
        /\ lock = q
        /\ lastOp.op = "take"
        /\ settlement = <<>>

\* C33 as claimed: for every order Fulfillment::fill returns a fulfillment whose
\* executed amount is the buy amount of a buy order or the sell amount of a
\* sell order, at the protocol fee.
C33_FillEveryOrder ==
    (call.fn = "Fulfillment::fill" /\ call.ret # Pending) =>
        call.ret.value = <<[order |-> call.args.order,
                            executed |-> Limit(call.args.order),
                            fee |-> Protocol]>>

\* C33: for every order whose fee the solver does not compute, Fulfillment::fill
\* returns a fulfillment whose executed amount is the buy amount of a buy order
\* or the sell amount of a sell order, at the protocol fee; for a limit order,
\* whose fee the solver computes, it returns None.
C33_FillProtocolFeeOrders ==
    (call.fn = "Fulfillment::fill" /\ call.ret # Pending) =>
        IF call.args.order.class = "Limit"
        THEN call.ret.value = <<>>
        ELSE call.ret.value = <<[order |-> call.args.order,
                                 executed |-> Limit(call.args.order),
                                 fee |-> Protocol]>>

\* Fulfillment::fill has filled a buy order that is no limit order and whose
\* amounts differ.
C33_Witness ==
    /\ call.fn = "Fulfillment::fill"
    /\ call.ret # Pending
    /\ call.ret.value # <<>>
    /\ call.args.order.side = "Buy"
    /\ call.args.order.class = "Market"
    /\ call.args.order.buy.amount # call.args.order.sell.amount
    /\ call.ret.value[1].executed = call.args.order.buy.amount

\* ------------------------------------------------------------------ C34
\* The interactions of the response with their coordinates, as pushed.
Pushed(model) == FromOrders(model) \o FromAmms(model, 1) \o FromInteractionData(model)

\* Of the pushed interactions, i is before j in execution order: by the
\* coordinates, those without coordinates first, then as pushed.
Precedes(pairs, i, j) ==
    \/ pairs[i].coordinate = <<>> /\ pairs[j].coordinate # <<>>
    \/ /\ pairs[i].coordinate # <<>> /\ pairs[j].coordinate # <<>>
       /\ pairs[i].coordinate[1] < pairs[j].coordinate[1]
    \/ pairs[i].coordinate = pairs[j].coordinate /\ i < j

\* The first of the candidates in execution order, if there is any.
FirstOf(pairs, candidates) ==
    {i \in candidates : \A j \in candidates \ {i} : Precedes(pairs, i, j)}

\* Two interactions are of the same liquidity or of the same target.
Same(a, b) ==
    /\ a.kind = b.kind
    /\ IF a.kind = "Custom" THEN a.target = b.target ELSE a.liquidity = b.liquidity

\* The allowances that an interaction of the domain solution carries.
AllowancesOf(interaction) ==
    IF interaction.kind = "Custom" THEN interaction.allowances ELSE <<>>

\* The approvals of the response as allowances.
Approved(model) ==
    [i \in 1..Len(model.approvals) |->
        [spender |-> model.approvals[i].spender,
         asset |-> [token |-> model.approvals[i].token,
                    amount |-> model.approvals[i].amount]]]

\* The interactions of the domain solution are those of the response in
\* execution order.
InExecutionOrder(model, interactions) ==
    LET pairs == Pushed(model)
    IN  /\ Len(interactions) = Len(pairs)
        /\ \A k \in 1..Len(interactions) :
             \E i \in 1..Len(pairs) :
                /\ Same(pairs[i].interaction, interactions[k])
                /\ interactions[k].internalize = pairs[i].interaction.internalize
                /\ \A l \in (k + 1)..Len(interactions) :
                     \E j \in 1..Len(pairs) :
                        /\ Same(pairs[j].interaction, interactions[l])
                        /\ Precedes(pairs, i, j)

\* The interactions that carry allowances are the chosen ones, and these carry
\* all approvals of the response.
AddedTo(model, interactions, chosen) ==
    \A k \in 1..Len(interactions) :
        AllowancesOf(interactions[k]) =
            IF \E i \in chosen : Same(Pushed(model)[i].interaction, interactions[k])
            THEN Approved(model)
            ELSE <<>>

C35_NoApprovalLost ==
    (call.fn = "to_domain_solution" /\ call.ret.kind = "Ok") =>
        \A i \in 1..Len(call.args.approvals) :
            Cardinality({k \in 1..Len(call.ret.value.interactions) :
                            Approved(call.args)[i] \in
                                Range(AllowancesOf(call.ret.value.interactions[k]))}) = 1

\* C36: the prices that clearing_prices publishes have at most one entry for
\* a token, also when the solver gave a price of the native token.
C36_OneEntryPerToken ==
    (call.fn = "clearing_prices" /\ call.ret.kind = "Ok") =>
        \A i, j \in 1..Len(call.ret.value) :
            call.ret.value[i].token = call.ret.value[j].token => i = j

\* C37: clearing_prices does not fail on the lookup of the wrapped token: a
\* solution that Solution::new returns and in which a user order buys the
\* native token has a price of the wrapped token, and the call of
\* clearing_prices on it does not panic.
C37_WrappedLookupSucceeds ==
    /\ (call.fn = "new" /\ call.ret.kind = "Ok" /\ BuysNative(call.ret.value)) =>
          call.ret.value.weth \in DOMAIN call.ret.value.prices
    /\ call.fn = "clearing_prices" => call.ret # Panic

\* clearing_prices was called on a solution that Solution::new returned and
\* in which a user order buys the native token, and has derived the price of
\* the native token from that of the wrapped token.
C37_Witness ==
    /\ call.fn = "clearing_prices"
    /\ BuysNative(call.args)
    /\ call.ret.kind = "Ok"
    /\ DOMAIN call.args.prices = {"A", WETH}
    /\ call.ret.value[Len(call.ret.value)] = Asset(ETH_TOKEN, call.args.prices[WETH])

\* ------------------------------------------------------------------ C38
\* The working vector after the merge of the step, before the next settlement
\* is popped from it.
MergedInto(p) ==
    IF pc'[p] = "merge" THEN Append(settlements'[p], popped'[p])
    ELSE <<results'[p][Len(results'[p])]>>

\* C38: at every iteration of the merge loop the settlements of the working
\* vector (the popped one counted with the vector it came from), the results
\* and the successful merges so far add up to the number n of encoded
\* settlements; a successful merge changes no settlement of the working vector
\* but the one that absorbs the popped settlement and ends the scan of the
\* popped settlement; so for n >= 1
\* the loop ends with between 1 and n results, n less the successful merges.
C38_MergeLoopCount ==
    /\ [](\A p \in Procs :
            LET n == Len(merger[p].inputs)
            IN  /\ pc[p] \in {"merge", "score"} =>
                     Working(p) + Len(results[p]) + merger[p].merged = n
                /\ pc[p] = "score" =>
                     /\ settlements[p] = <<>>
                     /\ Len(results[p]) = n - merger[p].merged
                     /\ n >= 1 => Len(results[p]) \in 1..n)
    /\ [][\A p \in Procs :
            (/\ pc[p] = "merge"
             /\ result'[p].kind # "Cancelled"
             /\ merger'[p].merged # merger[p].merged) =>
                /\ merger'[p].merged = merger[p].merged + 1
                /\ Len(MergedInto(p)) = Len(settlements[p])
                /\ \A i \in 1..Len(settlements[p]) :
                     MergedInto(p)[i] # settlements[p][i] => i = idx[p]
                /\ pc'[p] = "merge" => idx'[p] = 1
                /\ pc'[p] = "score" => Len(settlements[p]) = 1]_vars

\* The merge loop ended with one result of MaxInputs inputs, every popped
\* settlement but the last absorbed by another.
C38_Witness ==
    \E p \in Procs :
        /\ pc[p] = "score"
        /\ Len(merger[p].inputs) = MaxInputs
        /\ merger[p].merged = MaxInputs - 1
        /\ Len(results[p]) = 1

\* ------------------------------------------------------------------ C39
\* The positions in the events `received` of the events named in `names`.
Positions(received, names) == {k \in 1..Len(received) : received[k].event \in names}

\* C39: in one observed round of solve, every solution that the solver
\* returns triggers exactly one of the events empty_solution and encoding;
\* encoding_failed is emitted only for a solution id whose encoding event was
\* emitted before; every merge attempt emits exactly one of merged and
\* not_merged; and the settlements that leave the merge loop emit one scoring
\* event each, all of them before the scoring_failed and score events, of which
\* there is one for each settlement, the score events being those of the
\* settlements that were scored.
C39_Observability ==
    [][\A p \in Procs :
         LET before == events.received
             after == events'.received
         IN  /\ (Leaves(p, "solver") /\ pc'[p] = "encode") =>
                    \A i \in 1..Len(solutions'[p]) :
                        Cardinality({k \in Positions(after, {"empty_solution", "encoding"}) :
                                        after[k].id = solutions'[p][i].id}) = 1
             /\ \A k \in Positions(after, {"encoding_failed"}) :
                    /\ pc[p] # "idle" => Leaves(p, "encode")
                    /\ \E j \in 1..Len(before) : before[j] = observe_encoding(after[k].id)
                    /\ \A j \in Positions(after, {"encoding_failed"}) :
                           after[j].id = after[k].id => j = k
             /\ merger'[p].attempts = merger[p].attempts + 1 =>
                    /\ Len(after) = 1
                    /\ after[1].event \in {"merged", "not_merged"}
                    /\ after[1].event = "merged" <=> merger'[p].merged # merger[p].merged
                    /\ after[1].settlement = popped[p]
             /\ (Leaves(p, "score") /\ pc'[p] = "pick") =>
                    LET n == Len(results[p])
                        outcomes == Positions(after, {"scoring_failed", "score"})
                        scored == Positions(after, {"score"})
                    IN  /\ Len(after) = 2 * n
                        /\ \A i \in 1..n : after[i] = observe_scoring(results[p][i])
                        /\ outcomes = (n + 1)..(2 * n)
                        /\ Cardinality(scored) = Len(scores'[p])
                        /\ \A i \in 1..Len(scores'[p]) :
                               \E k \in scored :
                                   after[k] = observe_score(scores'[p][i].settlement,
                                                            scores'[p][i].score)
                        /\ \A k \in outcomes \ scored :
                               after[k] = observe_scoring_failed(auction[p].id)]_vars

\* The subscriber received the events of a round in which two settlements left
\* the merge loop, one of which failed scoring and the other was scored.
C39_Witness ==
    /\ events.subscribed
    /\ Len(events.received) = 4
    /\ Positions(events.received, {"scoring"}) = {1, 2}
    /\ Positions(events.received, {"scoring_failed"}) # {}
    /\ Positions(events.received, {"score"}) # {}

\* ------------------------------------------------------------------ C40
\* C40: Fulfillment::new never wraps around on overflow: for a sell order with
\* a surplus fee, when the executed amount plus the surplus fee exceeds the
\* maximum of a U256, it returns None, whatever the sell amount of the order.
C40_NoWrapAround ==
    (/\ call.fn = "Fulfillment::new"
     /\ call.ret # Pending
     /\ call.args.order.side = "Sell"
     /\ call.args.fee.kind = "Surplus"
     /\ call.args.executed + call.args.fee.amount > MaxU256) =>
        call.ret = Ok(<<>>)

\* A fill-or-kill sell order of a limit class whose sell amount is what the
\* executed amount plus the surplus fee wraps around to: None.
C40_Witness ==
    /\ call.fn = "Fulfillment::new"
    /\ call.ret = Ok(<<>>)
    /\ call.args.order.side = "Sell"
    /\ call.args.order.class = "Limit"
    /\ ~call.args.order.partially_fillable
    /\ call.args.fee.kind = "Surplus"
    /\ call.args.executed + call.args.fee.amount > MaxU256
    /\ call.args.order.sell.amount =
           (call.args.executed + call.args.fee.amount) % (MaxU256 + 1)

====
